---- MODULE Spec2Model ----
(***************************************************************************)
(* A model of pv2's declarative spec-file patch editor                     *)
(* (pv2/srpmproc/editor.py and pv2/srpmproc/util.py).                      *)
(*                                                                         *)
(* Text is modelled as it is handled by the code: a file is a list of      *)
(* lines, a line is a sequence of characters (one-character strings; a     *)
(* word that the code only ever treats as a unit, such as the %changelog   *)
(* marker, is one element).  The character "\n" may occur inside a list    *)
(* element in memory; writing the list and reading it back splits there.   *)
(*                                                                         *)
(* Three specifications share the module:                                  *)
(*   Spec     Config.__init__, Config.run and ActionQueue.execute_all      *)
(*   SpecDP   Action.data_processor under SearchAndReplace / DeleteLine    *)
(*   SpecANS  pv2.srpmproc.util.add_new_source                             *)
(***************************************************************************)
EXTENDS Integers, Sequences, FiniteSets, TLC

VARIABLES
    \* ---- Config / ActionQueue ----
    loaded_config,  \* Config.loaded_config: the parsed YAML document
    pc,             \* position of the running program
    cursor,         \* <<entry index, item index>> of the loop in __process_config
    queue,          \* ActionQueue.queue: constructed actions, in insertion order
    plan,           \* execute_all's two local lists (indexes into queue)
    executed,       \* the calls made, in order (Config: the indexes of the actions
                    \* whose execute() was invoked)
    disk,           \* the target file on disk, as a list of lines
    disk0,          \* the target file as it was before the program started
    error,          \* the exception that was raised, "none" if none
    script,         \* ApplyScript.execute: what the script's process returned and
                    \* the message of the error raised for it
    \* ---- data_processor ----
    call,           \* the running action: its kind and parameters
    lidx,           \* DeleteLine.execute: index of the entry of `lines` being processed
    file,           \* data_processor's in-memory line list
    i,              \* data_processor's scan index (0-based, as in the code)
    counter,        \* data_processor's substitution counter
    changes,        \* data_processor's `changes` flag
    subs,           \* ghost: lines touched so far in this scan, as <<index, old, new>>
    \* ---- add_new_source ----
    spec_data,      \* the spec line list handed to add_new_source
    last_call,      \* the last add_new_source call: its number, arguments, list before
    package,        \* the package directory: its name, whether it holds a *.patches file
    \* ---- RpmImport.srpmproc_import ----
    remote,         \* the patch repository: its refs and the YAML files of its branches
    imp,            \* srpmproc_import's locals, the working directories, the exit code
    \* ---- AddFile / ReplaceFile / DeleteFile ----
    fs              \* the files the file actions touch: the payloads under files/,
                    \* the package's SOURCES/, top-level files and metadata file

vars == <<loaded_config, pc, cursor, queue, plan, executed, disk, disk0, error, script,
          call, lidx, file, i, counter, changes, subs, spec_data, last_call, package,
          remote, imp, fs>>

cfgVars == <<loaded_config, pc, cursor, queue, plan, executed, disk, disk0, error, script>>
dpVars  == <<call, lidx, file, i, counter, changes, subs>>
ansVars == <<spec_data, last_call, package>>
impVars == <<remote, imp, fs>>

(***************************************************************************)
(* Bounds of the model.                                                    *)
(***************************************************************************)
MaxPatch == 3      \* entries in a config's patch list
MaxLines == 3      \* lines of a target file handed to data_processor
MaxGrow  == 4      \* lines a scan may add before the model stops following it
MaxCalls == 2      \* successive add_new_source calls on one spec
MaxMatching == 2   \* files of the package that match the name looked for

(***************************************************************************)
(* Text helpers.                                                           *)
(***************************************************************************)
NL == "\n"
SP == " "

Reverse(s) == [k \in 1..Len(s) |-> s[Len(s) + 1 - k]]

\* list.insert(k0, x) with a 0-based index 0 <= k0; an index past the end appends.
InsertAt_End(s, k0, x) == Append(s, x)

InsertAt(s, k0, x) ==
    IF k0 >= Len(s) THEN Append(s, x)
    ELSE SubSeq(s, 1, k0) \o <<x>> \o SubSeq(s, k0 + 1, Len(s))

\* "\n".join(lines)
RECURSIVE JoinNL(_)
JoinNL(ls) ==
    IF ls = <<>> THEN <<>>
    ELSE IF Len(ls) = 1 THEN ls[1]
    ELSE ls[1] \o <<NL>> \o JoinNL(Tail(ls))

\* str.split("\n") of one list element
RECURSIVE SplitNL(_, _)
SplitNL(line, acc) ==
    IF line = <<>> THEN <<acc>>
    ELSE IF Head(line) = NL THEN <<acc>> \o SplitNL(Tail(line), <<>>)
    ELSE SplitNL(Tail(line), Append(acc, Head(line)))

RECURSIVE SplitAll(_)
SplitAll(ls) == IF ls = <<>> THEN <<>> ELSE SplitNL(Head(ls), <<>>) \o SplitAll(Tail(ls))

\* generic.write_file_from_list followed by generic.read_file_to_list: every
\* element is written with a trailing "\n", the file is read back line by line.
write_file_from_list(data) == SplitAll(data)
read_file_to_list(d) == d

StartsWith(line, p) == Len(line) >= Len(p) /\ SubSeq(line, 1, Len(p)) = p

\* generic.line_is_comment
line_is_comment(line) == StartsWith(line, <<"#">>)

\* str.lstrip() / str.strip(); the space is the only whitespace of the alphabet
RECURSIVE LStrip(_)
LStrip(line) ==
    IF line # <<>> /\ Head(line) \in {SP, NL} THEN LStrip(Tail(line)) ELSE line

Strip(line) == Reverse(LStrip(Reverse(LStrip(line))))

\* rpmutil.spec_line_changelog: "%changelog" == line.strip('\n \t')
ChangelogMarker == <<"%changelog">>
spec_line_changelog(line) == Strip(line) = ChangelogMarker

\* rpmutil.spec_line_release
spec_line_release(line) == StartsWith(line, <<"Release:">>)

\* rpmutil.spec_autorelease: ^Release:.*%autorelease
spec_autorelease(f) ==
    \E k \in 1..Len(f) :
        /\ StartsWith(f[k], <<"Release:">>)
        /\ \E j \in 2..Len(f[k]) : f[k][j] = "%autorelease"

\* rpmutil.spec_autochangelog: ^\s?%autochangelog
spec_autochangelog(f) ==
    \E k \in 1..Len(f) :
        \/ StartsWith(f[k], <<"%autochangelog">>)
        \/ StartsWith(f[k], <<SP, "%autochangelog">>)

(***************************************************************************)
(* Action schemas and Action.validate.                                     *)
(* A parameter value is [t |-> its Python type, v |-> its content]; the    *)
(* content is always a sequence (a string is its characters, a list its    *)
(* elements, a bool <<"true">> or <<"false">>, None the empty sequence).   *)
(***************************************************************************)
Str(v)  == [t |-> "str",  v |-> v]
Bool(b) == [t |-> "bool", v |-> IF b THEN <<"true">> ELSE <<"false">>]
List(v) == [t |-> "list", v |-> v]
Integer(v) == [t |-> "int", v |-> v]
Dict(v) == [t |-> "dict", v |-> v]
None    == [t |-> "NoneType", v |-> <<>>]

\* Config.ACTIONS: action name -> class (ACTIONS is a reserved word of TLA+)
CONFIG_ACTIONS ==
           [append_release     |-> "AppendRelease",
            apply_patch        |-> "ApplyPatch",
            apply_script       |-> "ApplyScript",
            add_file           |-> "AddFile",
            delete_file        |-> "DeleteFile",
            delete_line        |-> "DeleteLine",
            replace_file       |-> "ReplaceFile",
            search_and_replace |-> "SearchAndReplace",
            spec_changelog     |-> "SpecChangelog"]

\* required_keys of each class
required_keys ==
    [AppendRelease    |-> {"suffix", "enabled"},
     ApplyPatch       |-> {"filename"},
     ApplyScript      |-> {"script"},
     AddFile          |-> {"type", "name", "number"},
     DeleteFile       |-> {"filename"},
     DeleteLine       |-> {"target", "lines"},
     ReplaceFile      |-> {"filename"},
     SearchAndReplace |-> {"target", "find", "replace"},
     SpecChangelog    |-> {"name", "email", "line"}]

\* allowed_keys of each class, in declaration order, as <<key, type>>
allowed_keys ==
    [AppendRelease    |-> << <<"suffix", "str">>, <<"enabled", "bool">> >>,
     ApplyPatch       |-> << <<"filename", "str">> >>,
     ApplyScript      |-> << <<"script", "str">> >>,
     AddFile          |-> << <<"type", "str">>, <<"name", "str">>,
                             <<"source_name", "str">>, <<"number", "str">>,
                             <<"add_to_spec", "bool">>, <<"upload", "bool">> >>,
     DeleteFile       |-> << <<"filename", "str">> >>,
     DeleteLine       |-> << <<"target", "str">>, <<"lines", "list">> >>,
     ReplaceFile      |-> << <<"filename", "str">>, <<"source_filename", "str">>,
                             <<"upload_to_lookaside", "bool">> >>,
     SearchAndReplace |-> << <<"target", "str">>, <<"find", "str">>,
                             <<"regex", "bool">>, <<"replace", "str">>,
                             <<"count", "int">> >>,
     SpecChangelog    |-> << <<"name", "str">>, <<"email", "str">>,
                             <<"line", "list">> >>]

AllowedNames(cls) == {allowed_keys[cls][k][1] : k \in 1..Len(allowed_keys[cls])}

\* isinstance(value, expected_type); bool is a subclass of int in Python
IsInstance(val, ty) == val.t = ty \/ (ty = "int" /\ val.t = "bool")

\* a mutant of IsEmptyValue: every falsy value counts as empty (`not value`)
IsEmptyValue_Falsy(val) ==
    \/ val.t = "NoneType"
    \/ val.v = <<>>
    \/ val \in {Bool(FALSE), Integer(<<"0">>)}

\* value in [None, "", [], {}]
IsEmptyValue(val) ==
    \/ val.t = "NoneType"
    \/ (val.t \in {"str", "list", "dict"} /\ val.v = <<>>)

\* util/error.py: how many positional arguments each error class must be given
\* (the classes with their own __init__(self, action, reason) need two)
init_args ==
    [PatchConfigValueError |-> 2, PatchConfigTypeError |-> 2, TooManyFilesError |-> 2,
     NotAppliedError |-> 1, FileNotFound |-> 0, RpmParseError |-> 0]

\* util/error.py and constants.ErrorConstants: the fault code of an error kind;
\* a built-in exception has none (0)
fault_code(kind) ==
    CASE kind = "PatchConfigValueError" -> 9601
      [] kind = "PatchConfigTypeError"  -> 9602
      [] kind = "TooManyFilesError"     -> 9603
      [] kind = "NotAppliedError"       -> 9600
      [] kind = "FileNotFound"          -> 9005
      [] kind = "RpmParseError"         -> 9404
      [] kind = "ConfigurationError"    -> 9004
      [] kind = "GitCommitError"        -> 9301
      [] kind = "GitPushError"          -> 9302
      [] kind = "GitInitError"          -> 9303
      [] kind = "GitCheckoutError"      -> 9304
      [] kind = "GitApplyError"         -> 9305
      [] OTHER                          -> 0

\* `raise err.<kind>(...)` written with nargs arguments: the exception that
\* comes out, which is Python's TypeError when the class cannot be built
raises(kind, nargs) == IF nargs < init_args[kind] THEN "TypeError" ELSE kind

\* the loop of Action.validate over allowed_keys, from position k on
RECURSIVE CheckValues(_, _, _)
CheckValues(cls, data, k) ==
    IF k > Len(allowed_keys[cls]) THEN "none"
    ELSE LET key == allowed_keys[cls][k][1]
             ty  == allowed_keys[cls][k][2]
         IN  IF key \notin DOMAIN data THEN CheckValues(cls, data, k + 1)
             ELSE IF ~IsInstance(data[key], ty) THEN raises("PatchConfigTypeError", 1)
             ELSE IF IsEmptyValue(data[key]) THEN raises("PatchConfigValueError", 1)
             ELSE CheckValues(cls, data, k + 1)

\* a mutant of validate: the constructor does not validate
validate_Skipped(cls, data) == "none"

\* Action.validate (and AddFile.validate): the error raised, "none" if none
validate(cls, data) ==
    IF required_keys[cls] \ DOMAIN data # {} THEN raises("PatchConfigValueError", 2)
    ELSE IF DOMAIN data \ AllowedNames(cls) # {} THEN raises("PatchConfigValueError", 1)
    ELSE IF CheckValues(cls, data, 1) # "none" THEN CheckValues(cls, data, 1)
    ELSE IF cls = "AddFile" /\ data["type"].v \notin {<<"patch">>, <<"source">>}
         THEN raises("PatchConfigTypeError", 1)
    ELSE "none"

(***************************************************************************)
(* The actions' execute methods that the Config specification runs.        *)
(* An execute yields [err |-> the exception raised or "none",              *)
(*                    disk |-> the spec file afterwards].                  *)
(***************************************************************************)
RPM_AUTORELEASE_FINAL_LINE == "}%{?-e:.%{-e*}}%{?-s:.%{-s*}}%{!?-n:%{?dist}}"

Contains(line, ch) == \E k \in 1..Len(line) : line[k] = ch

\* AppendRelease.execute, the loop over the lines when %autorelease is used:
\* the first line holding the final line of the macro gets the suffix
RECURSIVE AppendAuto(_, _, _)
AppendAuto(f, k, suffix) ==
    IF k > Len(f) THEN f
    ELSE IF Contains(f[k], RPM_AUTORELEASE_FINAL_LINE)
         THEN [f EXCEPT ![k] = f[k] \o suffix]
         ELSE AppendAuto(f, k + 1, suffix)

\* AppendRelease.execute
AppendRelease_execute(d, data) ==
    IF data["enabled"].v = <<"false">> THEN [err |-> "none", disk |-> d]
    ELSE LET f      == read_file_to_list(d)
             suffix == data["suffix"].v
             out    == IF spec_autorelease(f)
                       THEN AppendAuto(f, 1, suffix)
                       ELSE [k \in 1..Len(f) |->
                                IF spec_line_release(f[k]) THEN f[k] \o suffix ELSE f[k]]
             modified == IF spec_autorelease(f)
                         THEN \E k \in 1..Len(f) : Contains(f[k], RPM_AUTORELEASE_FINAL_LINE)
                         ELSE \E k \in 1..Len(f) : spec_line_release(f[k])
         IN  IF ~modified THEN [err |-> "NotAppliedError", disk |-> d]
             ELSE [err |-> "none", disk |-> write_file_from_list(out)]

\* textwrap.wrap(change_entry, 80, initial_indent="- ", subsequent_indent="  "):
\* an entry is one word; the word "long" stands for a text that needs two lines
wrap(change_entry) ==
    IF change_entry = "long"
    THEN << <<"- ", change_entry, "(1)">>, <<"  ", change_entry, "(2)">> >>
    ELSE << <<"- ", change_entry>> >>

RECURSIVE WrapAll(_)
WrapAll(entries) ==
    IF entries = <<>> THEN <<>> ELSE wrap(Head(entries)) \o WrapAll(Tail(entries))

\* the changelog header: "* <date> <name> <<email>> - <version>-<release>"
change_meta(data) ==
    <<"* ", "DATE", SP>> \o data["name"].v \o <<" <">> \o data["email"].v \o <<"> - ", "EVR">>

\* SpecChangelog.execute, the loop `for c, l in enumerate(file)` from the 0-based
\* index c on; changelog_info_lines is never reset between two markers
RECURSIVE ChangelogLoop(_, _, _, _)
ChangelogLoop(f, c, data, changelog_info_lines) ==
    IF c >= Len(f) THEN f
    ELSE IF f[c + 1] = ChangelogMarker
    THEN LET info == changelog_info_lines \o WrapAll(data["line"].v)
             f1   == InsertAt(f, c + 1, change_meta(data))
             f2   == InsertAt(f1, c + 2, JoinNL(info) \o <<NL>>)
         IN  ChangelogLoop(f2, c + 1, data, info)
    ELSE ChangelogLoop(f, c + 1, data, changelog_info_lines)

\* SpecChangelog.execute; parse_ok: whether rpm could parse the spec (spec_parse)
SpecChangelog_execute(d, data, parse_ok) ==
    LET f == read_file_to_list(d)
    IN  IF spec_autochangelog(f) THEN [err |-> "none", disk |-> d]
        ELSE IF ~parse_ok THEN [err |-> "RpmParseError", disk |-> d]
        ELSE [err |-> "none",
              disk |-> write_file_from_list(ChangelogLoop(f, 0, data, <<>>))]

\* str.strip() of a text given as its list of characters and words
Whitespace == {" ", "\n", "\t"}

RECURSIVE lstrip(_)
lstrip(text) ==
    IF text # <<>> /\ Head(text) \in Whitespace THEN lstrip(Tail(text)) ELSE text

str_strip(text) == Reverse(lstrip(Reverse(lstrip(text))))

\* what the scripts write to stderr
StderrTexts == {<<>>, <<" ", "boom", "\n">>}

\* processor.run_proc_foreground_shell(command): the finished process, with
\* its exit status and the text it wrote to stderr
run_proc_foreground_shell == [returncode : {0, 1}, stderr : StderrTexts]

\* no script was run
NoScript == [returncode |-> 0, stderr |-> <<>>, message |-> <<>>]

\* the argument of NotAppliedError in ApplyScript.execute: a plain string
\* literal, the braces and what is between them are part of the text
script_failed_message(screrr) == <<"Script failed: ", "{screrr.strip()}">>

\* ApplyScript.execute: the script is missing, exits non-zero, or exits 0.
\* What the script itself does to the tree is outside the model.
ApplyScript_execute(d, exists, ret) ==
    IF ~exists THEN [err |-> "FileNotFound", disk |-> d, script |-> NoScript]
    ELSE IF ret.returncode # 0
    THEN [err |-> "NotAppliedError", disk |-> d,
          script |-> [returncode |-> ret.returncode, stderr |-> ret.stderr,
                      message |-> script_failed_message(ret.stderr)]]
    ELSE [err |-> "none", disk |-> d,
          script |-> [returncode |-> ret.returncode, stderr |-> ret.stderr,
                      message |-> <<>>]]

\* action.execute(package_path): the set of possible results
execute(action, d) ==
    CASE action.cls = "AppendRelease" -> {AppendRelease_execute(d, action.data)}
      [] action.cls = "SpecChangelog" ->
            {SpecChangelog_execute(d, action.data, ok) : ok \in BOOLEAN}
      [] action.cls = "ApplyScript" ->
            {ApplyScript_execute(d, exists, ret) :
                exists \in BOOLEAN, ret \in run_proc_foreground_shell}

(***************************************************************************)
(* Config: __init__ (__validate_config, then one Action per item), run.    *)
(* loaded_config is [shape, patch]: shape tells what yaml.safe_load gave   *)
(* ("empty" document, "nopatch" key, patch: "none", patch "notalist", or a *)
(* "list"); patch is the list of entries [name, islist, list].             *)
(***************************************************************************)
IsAction(name) == name \in DOMAIN CONFIG_ACTIONS

\* Config.__validate_config, the loop over the entries from position k on
RECURSIVE CheckEntries(_, _)
CheckEntries(patch, k) ==
    IF k > Len(patch) THEN "none"
    ELSE IF ~IsAction(patch[k].name) THEN raises("PatchConfigValueError", 1)
    ELSE IF ~patch[k].islist THEN raises("PatchConfigTypeError", 1)
    ELSE CheckEntries(patch, k + 1)

\* Config.__validate_config: the error raised, "none" if none
validate_config(cfg) ==
    CASE cfg.shape \in {"empty", "nopatch"} -> raises("PatchConfigValueError", 1)
      [] cfg.shape = "none"                 -> raises("PatchConfigValueError", 1)
      [] cfg.shape = "notalist"             -> raises("PatchConfigTypeError", 1)
      [] OTHER                              -> CheckEntries(cfg.patch, 1)

\* the items visited by the nested loops of __process_config, in order
RECURSIVE Items(_)
Items(patch) ==
    IF patch = <<>> THEN <<>>
    ELSE [k \in 1..Len(Head(patch).list) |->
            [name |-> Head(patch).name, data |-> Head(patch).list[k]]]
         \o Items(Tail(patch))

\* a mutant of raise_to: the exception is swallowed and the loop goes on
raise_to_Swallowed(err, cont) == cont

\* Python's propagation of an exception out of a loop without try/except:
\* where the program goes after a call that raised `err`
raise_to(err, cont) == IF err = "none" THEN cont ELSE "raised"

\* Config.__init__ up to and including __validate_config
ValidateConfig ==
    /\ pc = "load"
    /\ LET e == validate_config(loaded_config)
       IN  /\ pc' = raise_to(e, "build")
           /\ error' = e
    /\ cursor' = 1
    /\ UNCHANGED <<loaded_config, queue, plan, executed, disk, disk0, dpVars, ansVars, impVars, script>>

\* one round of the inner loop of __process_config: Action.__init__ (which
\* validates) and ActionQueue.add_action
AddAction ==
    /\ pc = "build"
    /\ cursor <= Len(Items(loaded_config.patch))
    /\ LET it  == Items(loaded_config.patch)[cursor]
           cls == CONFIG_ACTIONS[it.name]
           e   == validate(cls, it.data)
       IN  /\ pc' = raise_to(e, "build")
           /\ error' = e
           /\ queue' = IF e = "none" THEN Append(queue, [cls |-> cls, data |-> it.data])
                       ELSE queue
    /\ cursor' = cursor + 1
    /\ UNCHANGED <<loaded_config, plan, executed, disk, disk0, dpVars, ansVars, impVars, script>>

\* Config.__init__ returns
InitDone ==
    /\ pc = "build"
    /\ cursor > Len(Items(loaded_config.patch))
    /\ pc' = "ready"
    /\ UNCHANGED <<loaded_config, cursor, queue, plan, executed, disk, disk0, error,
                   dpVars, ansVars, impVars, script>>

\* the indexes k of q, in order, with (q[k].cls = "SpecChangelog") = want
RECURSIVE Partition(_, _, _)
Partition(q, k, want) ==
    IF k > Len(q) THEN <<>>
    ELSE (IF (q[k].cls = "SpecChangelog") = want THEN <<k>> ELSE <<>>)
         \o Partition(q, k + 1, want)

\* Config.run and the partition loop of ActionQueue.execute_all
Run ==
    /\ pc = "ready"
    /\ plan' = [everything_else        |-> Partition(queue, 1, FALSE),
                spec_changelog_actions |-> Partition(queue, 1, TRUE)]
    /\ pc' = "exec_else"
    /\ cursor' = 1
    /\ UNCHANGED <<loaded_config, queue, executed, disk, disk0, error, dpVars, ansVars, impVars, script>>

\* one round of a loop of execute_all over the list `todo`
ExecuteFrom(todo, here) ==
    /\ cursor <= Len(todo)
    /\ \E r \in execute(queue[todo[cursor]], disk) :
          /\ executed' = Append(executed, todo[cursor])
          /\ disk' = r.disk
          /\ error' = r.err
          /\ script' = IF "script" \in DOMAIN r THEN r.script ELSE script
          /\ pc' = raise_to(r.err, here)
    /\ cursor' = cursor + 1
    /\ UNCHANGED <<loaded_config, queue, plan, disk0, dpVars, ansVars, impVars>>

\* `for action in everything_else: action.execute(package_path)`
ExecuteElse ==
    /\ pc = "exec_else"
    /\ ExecuteFrom(plan.everything_else, "exec_else")

\* the first loop of execute_all is over
ElseDone ==
    /\ pc = "exec_else"
    /\ cursor > Len(plan.everything_else)
    /\ pc' = "exec_changelog"
    /\ cursor' = 1
    /\ UNCHANGED <<loaded_config, queue, plan, executed, disk, disk0, error,
                   dpVars, ansVars, impVars, script>>

\* a mutant of changelog_order: the changelog actions run in insertion order
changelog_order_Forward(actions) == actions

\* reversed(spec_changelog_actions)
changelog_order(actions) == Reverse(actions)

\* `for action in reversed(spec_changelog_actions): action.execute(package_path)`
ExecuteChangelog ==
    /\ pc = "exec_changelog"
    /\ ExecuteFrom(changelog_order(plan.spec_changelog_actions), "exec_changelog")

\* execute_all and Config.run return
RunDone ==
    /\ pc = "exec_changelog"
    /\ cursor > Len(plan.spec_changelog_actions)
    /\ pc' = "done"
    /\ UNCHANGED <<loaded_config, cursor, queue, plan, executed, disk, disk0, error,
                   dpVars, ansVars, impVars, script>>

(***************************************************************************)
(* Inputs of the Config specification.                                     *)
(***************************************************************************)
SeqsUpTo(S, n) == UNION {[1..k -> S] : k \in 0..n}

DataAppend     == [suffix |-> Str(<<".1">>), enabled |-> Bool(TRUE)]
DataAppendOff  == [suffix |-> Str(<<".1">>), enabled |-> Bool(FALSE)]
DataAppendBad  == [suffix |-> Str(<<>>), enabled |-> Bool(TRUE)]
DataScript     == [script |-> Str(<<"fix.sh">>)]
DataScriptBad  == [script |-> Bool(TRUE), extra |-> Str(<<"x">>)]
DataChangelogA == [name |-> Str(<<"A">>), email |-> Str(<<"a@e">>), line |-> List(<<"bump">>)]
DataChangelogB == [name |-> Str(<<"B">>), email |-> Str(<<"b@e">>), line |-> List(<<"long", "fix">>)]
DataChangelogBad == [name |-> Str(<<"C">>), line |-> List(<<"bump">>)]

Entry(name, islist, list) == [name |-> name, islist |-> islist, list |-> list]

PatchEntries ==
    { Entry("append_release", TRUE, <<DataAppend>>),
      Entry("append_release", TRUE, <<DataAppendOff>>),
      Entry("append_release", TRUE, <<DataAppendBad>>),
      Entry("apply_script", TRUE, <<DataScript>>),
      Entry("apply_script", FALSE, <<>>),
      Entry("spec_changelog", TRUE, <<DataChangelogA>>),
      Entry("spec_changelog", TRUE, <<DataChangelogB>>),
      Entry("spec_changelog", TRUE, <<DataChangelogA, DataChangelogB>>),
      Entry("spec_changelog", TRUE, <<DataChangelogBad>>),
      Entry("apply_script", TRUE, <<DataScriptBad>>),
      Entry("no_such_action", TRUE, <<DataScript>>) }

Configs ==
    {[shape |-> sh, patch |-> <<>>] : sh \in {"empty", "nopatch", "none", "notalist"}}
    \cup {[shape |-> "list", patch |-> p] : p \in SeqsUpTo(PatchEntries, MaxPatch)}

SpecFiles ==
    { << <<"Release:", SP, "1">>, <<"%changelog">>, <<"* ", "old">>, <<"- ", "first">> >>,
      << <<"Version:", SP, "1">>, <<"%changelog">> >>,
      << <<"Release:", SP, "1">>, <<"%autochangelog">> >>,
      << <<"Release:", SP, "1">>, <<"%changelog">>, <<"- ", "x">>, <<"%changelog">> >>,
      << <<"Release:", SP, "1">>, <<"%build">> >> }

NullDP ==
    /\ call = [kind |-> "none"]
    /\ lidx = 0 /\ file = <<>> /\ i = 0 /\ counter = 0 /\ changes = FALSE /\ subs = <<>>

NullIMP ==
    /\ remote = [refs |-> {}]
    /\ imp = [fault |-> 0]
    /\ fs = [sources |-> <<>>]

NullANS ==
    /\ spec_data = <<>>
    /\ last_call = [n |-> 0, directive_type |-> "", source_number |-> [t |-> "int", v |-> -1],
                    before |-> <<>>]
    /\ package = [name |-> "", patches_file |-> FALSE]

Init ==
    /\ loaded_config \in Configs
    /\ pc = "load"
    /\ cursor = 0
    /\ queue = <<>>
    /\ plan = [everything_else |-> <<>>, spec_changelog_actions |-> <<>>]
    /\ executed = <<>>
    /\ disk \in SpecFiles
    /\ disk0 = disk
    /\ error = "none"
    /\ script = NoScript
    /\ NullDP
    /\ NullANS
    /\ NullIMP

Next ==
    \/ ValidateConfig
    \/ AddAction
    \/ InitDone
    \/ Run
    \/ ExecuteElse
    \/ ElseDone
    \/ ExecuteChangelog
    \/ RunDone

Spec == Init /\ [][Next]_vars

(***************************************************************************)
(* Claims about Config and ActionQueue (specification Spec).               *)
(***************************************************************************)
\* what Action.validate accepts, stated declaratively
WellFormed(cls, data) ==
    /\ required_keys[cls] \subseteq DOMAIN data
    /\ DOMAIN data \subseteq AllowedNames(cls)
    /\ \A k \in 1..Len(allowed_keys[cls]) :
          LET key == allowed_keys[cls][k][1]
          IN  key \in DOMAIN data =>
                 /\ IsInstance(data[key], allowed_keys[cls][k][2])
                 /\ ~IsEmptyValue(data[key])
    /\ cls = "AddFile" => data["type"].v \in {<<"patch">>, <<"source">>}

\* some entry of the patch list is invalid
ConfigInvalid(cfg) ==
    \/ cfg.shape # "list"
    \/ \E k \in 1..Len(cfg.patch) :
          \/ ~IsAction(cfg.patch[k].name)
          \/ ~cfg.patch[k].islist
          \/ \E j \in 1..Len(cfg.patch[k].list) :
                ~WellFormed(CONFIG_ACTIONS[cfg.patch[k].name], cfg.patch[k].list[j])

\* C1: if any entry of the patch list is invalid (unknown action name, a
\* parameter list that is not a list, parameters that fail validation), Config
\* construction never completes, no execute has been invoked and the package's
\* file is unchanged.
C1_ValidationPrecedesMutation ==
    ConfigInvalid(loaded_config) =>
        /\ pc \in {"load", "build", "raised"}
        /\ pc = "build" => cursor <= Len(Items(loaded_config.patch))
        /\ executed = <<>>
        /\ disk = disk0

\* C1's case: two valid actions were constructed, the third item failed
\* validation and Config construction raised with nothing executed
C1_Witness ==
    /\ pc = "raised"
    /\ Len(queue) = 2
    /\ cursor = 4
    /\ ConfigInvalid(loaded_config)
    /\ executed = <<>>

IsChangelog(k) == queue[k].cls = "SpecChangelog"
QueueIndexes == [k \in 1..Len(queue) |-> k]
NoRepeat(s) == \A a, b \in 1..Len(s) : a # b => s[a] # s[b]

\* C2: execute_all executes every queued action exactly once, the
\* non-SpecChangelog actions first, in insertion order, then the SpecChangelog
\* actions in reverse insertion order; no SpecChangelog action ever executes
\* before a non-changelog action.
C2_ExecutionOrder ==
    /\ NoRepeat(executed)
    /\ \A a, b \in 1..Len(executed) :
          (a < b /\ IsChangelog(executed[a])) => IsChangelog(executed[b])
    /\ pc = "done" =>
          executed = SelectSeq(QueueIndexes, LAMBDA k : ~IsChangelog(k))
                     \o Reverse(SelectSeq(QueueIndexes, LAMBDA k : IsChangelog(k)))

\* C2's case: a queue [changelog, other, changelog] ran to the end
C2_Witness ==
    /\ pc = "done"
    /\ Len(queue) = 3
    /\ IsChangelog(1) /\ ~IsChangelog(2) /\ IsChangelog(3)
    /\ executed = <<2, 3, 1>>

\* the first line of the file equal to `line` (0 if there is none)
FirstPos(f, line) ==
    IF \E k \in 1..Len(f) : f[k] = line
    THEN CHOOSE k \in 1..Len(f) : f[k] = line /\ \A j \in 1..(k - 1) : f[j] # line
    ELSE 0

\* exactly two spec_changelog actions, with different entries, ran to the end
\* on a spec that has a %changelog marker and does not use %autochangelog
TwoChangelogsDone(a, b) ==
    /\ pc = "done"
    /\ a < b
    /\ IsChangelog(a) /\ IsChangelog(b)
    /\ \A k \in 1..Len(queue) : IsChangelog(k) => k \in {a, b}
    /\ queue[a].data # queue[b].data
    /\ ~spec_autochangelog(disk0)
    /\ FirstPos(disk0, ChangelogMarker) > 0

\* C3 as claimed: of two spec_changelog actions declared A then B, B's entry
\* ends above A's entry.
C3_Claimed_BAboveA ==
    \A a, b \in 1..Len(queue) :
        TwoChangelogsDone(a, b) =>
            FirstPos(disk, change_meta(queue[b].data))
                < FirstPos(disk, change_meta(queue[a].data))

\* C3 as amended: of two spec_changelog actions declared A then B, A's entry
\* ends directly below the %changelog marker, above B's entry.
C3_AAboveB ==
    \A a, b \in 1..Len(queue) :
        TwoChangelogsDone(a, b) =>
            /\ FirstPos(disk, change_meta(queue[a].data))
                  = FirstPos(disk, ChangelogMarker) + 1
            /\ FirstPos(disk, change_meta(queue[a].data))
                  < FirstPos(disk, change_meta(queue[b].data))

\* C3's case: two different changelog actions ran and both entries are in the file
C3_Witness ==
    \E a, b \in 1..Len(queue) :
        /\ TwoChangelogsDone(a, b)
        /\ FirstPos(disk, change_meta(queue[a].data)) > 0
        /\ FirstPos(disk, change_meta(queue[b].data)) > 0

\* C4: when an action raises during execute_all, no later action is executed
\* and the error reaches the caller of Config.run: the program is stopped with
\* that error, and nothing is executed or written afterwards.
C4_StopOnRaise ==
    /\ [](error # "none" => pc = "raised")
    /\ [][pc = "raised" => UNCHANGED <<pc, error, executed, disk>>]_vars

\* C4's case: an action raised while later actions of the queue had not run
C4_Witness ==
    /\ pc = "raised"
    /\ Len(executed) >= 1
    /\ Len(executed) < Len(queue)
    /\ error # "none"

(***************************************************************************)
(* The line processor: Action.data_processor and its helpers.              *)
(* A regular expression is modelled by a literal pattern (one without      *)
(* metacharacters): it matches exactly the occurrences of that text.       *)
(***************************************************************************)
\* the 1-based position of the first occurrence of find in line, 0 if none
IndexOf(line, find) ==
    LET hits == {k \in 1..(Len(line) - Len(find) + 1) :
                    SubSeq(line, k, k + Len(find) - 1) = find}
    IN  IF hits = {} THEN 0 ELSE CHOOSE k \in hits : \A j \in hits : k <= j

\* current_line.count(find) > 0, and bool(regexstr.finditer(current_line))
Occurs(line, find) == IndexOf(line, find) > 0

\* str.replace(find, repl, 1), and regexstr.sub(repl, line, 1)
ReplaceFirst(line, find, repl) ==
    LET k == IndexOf(line, find)
    IN  IF k = 0 THEN line
        ELSE SubSeq(line, 1, k - 1) \o repl \o SubSeq(line, k + Len(find), Len(line))

\* regexstr.sub(repl, line, 0): every non-overlapping occurrence, left to right
RECURSIVE ReplaceAll(_, _, _)
ReplaceAll(line, find, repl) ==
    LET k == IndexOf(line, find)
    IN  IF k = 0 \/ find = <<>> THEN line
        ELSE SubSeq(line, 1, k - 1) \o repl
             \o ReplaceAll(SubSeq(line, k + Len(find), Len(line)), find, repl)

\* Action.__skip_line
skip_line(target, line, find_lines) ==
    /\ target = "specfile"
    /\ \/ spec_line_changelog(line)
       \/ (line_is_comment(line) /\ ~line_is_comment(find_lines[1]))

\* Action.__find_indent
find_indent(line) == SubSeq(line, 1, Len(line) - Len(LStrip(line)))

\* Action.__apply_indent
apply_indent(lines, starting) ==
    [k \in 1..Len(lines) |->
        IF k > 1 /\ Strip(lines[k]) # <<>> THEN starting \o lines[k] ELSE lines[k]]

\* list.pop(i) / del file[i:i + n], 0-based
DeleteRange(f, i0, n) ==
    SubSeq(f, 1, i0) \o SubSeq(f, i0 + n + 1, Len(f))

\* the `count` test shared by the exact and the block rule
Exhausted(cnt, count) == count # -1 /\ cnt >= count

\* a mutant of process_single_line: the count limit is not looked at
process_single_line_NoLimit(f, i0, current_line, find, replace_lines, cnt, count) ==
    IF ~Occurs(current_line, find)
    THEN [file |-> f, counter |-> cnt, changed |-> FALSE]
    ELSE IF replace_lines = <<>> /\ Strip(current_line) = find
    THEN [file |-> DeleteRange(f, i0, 1), counter |-> cnt, changed |-> TRUE]
    ELSE LET to_replace_lines ==
                 IF replace_lines = <<>> THEN <<>>
                 ELSE IF f[i0 + 1] = find THEN replace_lines
                 ELSE apply_indent(replace_lines, find_indent(f[i0 + 1]))
         IN  [file |-> [f EXCEPT ![i0 + 1] =
                           ReplaceFirst(current_line, find, JoinNL(to_replace_lines))],
              counter |-> cnt + 1, changed |-> TRUE]

\* Action.__process_single_line: the list, the counter and `changed` afterwards
process_single_line(f, i0, current_line, find, replace_lines, cnt, count) ==
    IF ~Occurs(current_line, find)
    THEN [file |-> f, counter |-> cnt, changed |-> FALSE]
    ELSE IF Exhausted(cnt, count)
    THEN [file |-> f, counter |-> cnt, changed |-> FALSE]
    ELSE IF replace_lines = <<>> /\ Strip(current_line) = find
    THEN [file |-> DeleteRange(f, i0, 1), counter |-> cnt, changed |-> TRUE]
    ELSE LET to_replace_lines ==
                 IF replace_lines = <<>> THEN <<>>
                 ELSE IF f[i0 + 1] = find THEN replace_lines
                 ELSE apply_indent(replace_lines, find_indent(f[i0 + 1]))
         IN  [file |-> [f EXCEPT ![i0 + 1] =
                           ReplaceFirst(current_line, find, JoinNL(to_replace_lines))],
              counter |-> cnt + 1, changed |-> TRUE]

\* Action.__process_single_line_regex
process_single_line_regex(f, i0, current_line, pattern, replace_lines, cnt, count) ==
    IF ~Occurs(current_line, pattern)
    THEN [file |-> f, counter |-> cnt, changed |-> FALSE]
    ELSE LET replacer == JoinNL(replace_lines)
         IN  [file |-> [f EXCEPT ![i0 + 1] =
                           IF count # -1
                           THEN ReplaceFirst(current_line, pattern, replacer)
                           ELSE ReplaceAll(current_line, pattern, replacer)],
              counter |-> cnt, changed |-> TRUE]

\* file[i:i + n], 0-based, cut at the end of the list
Slice(f, i0, n) == SubSeq(f, i0 + 1, IF i0 + n > Len(f) THEN Len(f) ELSE i0 + n)

LStripAll(lines) == [k \in 1..Len(lines) |-> LStrip(lines[k])]

\* a mutant of process_multi_line: the replacement is written as given
process_multi_line_NoIndent(f, i0, find_lines, replace_lines, cnt, count) ==
    IF LStripAll(Slice(f, i0, Len(find_lines))) # LStripAll(find_lines)
       \/ Exhausted(cnt, count)
    THEN [file |-> f, counter |-> cnt, changed |-> FALSE]
    ELSE [file |-> SubSeq(f, 1, i0) \o replace_lines
                   \o SubSeq(f, i0 + Len(find_lines) + 1, Len(f)),
          counter |-> cnt + 1, changed |-> TRUE]

\* Action.__process_multi_line (its `i += ...` changes a local only)
process_multi_line(f, i0, find_lines, replace_lines, cnt, count) ==
    IF LStripAll(Slice(f, i0, Len(find_lines))) # LStripAll(find_lines)
    THEN [file |-> f, counter |-> cnt, changed |-> FALSE]
    ELSE IF Exhausted(cnt, count)
    THEN [file |-> f, counter |-> cnt, changed |-> FALSE]
    ELSE LET indent == find_indent(f[i0 + 1])
             formatted_repl_lines ==
                 [k \in 1..Len(replace_lines) |-> indent \o replace_lines[k]]
         IN  [file |-> SubSeq(f, 1, i0) \o formatted_repl_lines
                       \o SubSeq(f, i0 + Len(find_lines) + 1, Len(f)),
              counter |-> cnt + 1, changed |-> TRUE]

(***************************************************************************)
(* SearchAndReplace.execute and DeleteLine.execute around data_processor.  *)
(* call is [kind, target, rules, replace, count, regex]: rules holds the   *)
(* find_lines of each data_processor run of the action (one for            *)
(* search_and_replace, one per entry of `lines` for delete_line).          *)
(***************************************************************************)
cfgIdle == <<loaded_config, cursor, queue, plan, executed, script>>

find_lines == call.rules[lidx]

\* data_processor up to its loop: the counters are reset and the file is read
\* (read_file_to_list raises FileNotFound on a file without lines)
DPBegin ==
    /\ pc = "call"
    /\ IF disk = <<>>
       THEN /\ pc' = "raised"
            /\ error' = "FileNotFound"
            /\ UNCHANGED <<file, i, counter, changes, subs>>
       ELSE /\ pc' = "scan"
            /\ file' = read_file_to_list(disk)
            /\ i' = 0
            /\ counter' = 0
            /\ changes' = FALSE
            /\ subs' = <<>>
            /\ error' = error
    /\ UNCHANGED <<call, lidx, disk, disk0, cfgIdle, ansVars, impVars>>

\* the loop of data_processor is at a line
Scanning ==
    /\ pc = "scan"
    /\ i < Len(file)
    /\ Len(file) <= Len(disk) + MaxGrow

\* what one round of the loop leaves behind
Round(r) ==
    /\ file' = r.file
    /\ counter' = r.counter
    /\ changes' = (changes \/ r.changed)
    /\ subs' = IF r.changed THEN Append(subs, i) ELSE subs
    /\ i' = i + 1
    /\ UNCHANGED <<call, lidx, pc, disk, disk0, error, cfgIdle, ansVars, impVars>>

\* a round on a line that the skip rule excludes
DPSkipLine ==
    /\ Scanning
    /\ skip_line(call.target, file[i + 1], find_lines)
    /\ Round([file |-> file, counter |-> counter, changed |-> FALSE])

\* a round with a single find line, exact
DPSingleLine ==
    /\ Scanning
    /\ ~skip_line(call.target, file[i + 1], find_lines)
    /\ Len(find_lines) = 1 /\ ~call.regex
    /\ Round(process_single_line(file, i, file[i + 1], find_lines[1],
                                 call.replace, counter, call.count))

\* a round with a single find line, regex
DPSingleLineRegex ==
    /\ Scanning
    /\ ~skip_line(call.target, file[i + 1], find_lines)
    /\ Len(find_lines) = 1 /\ call.regex
    /\ Round(process_single_line_regex(file, i, file[i + 1], find_lines[1],
                                       call.replace, counter, call.count))

\* a round with a block of find lines
DPMultiLine ==
    /\ Scanning
    /\ ~skip_line(call.target, file[i + 1], find_lines)
    /\ Len(find_lines) # 1
    /\ Round(process_multi_line(file, i, find_lines, call.replace, counter, call.count))

\* a mutant of finalize_changes: the list is written whether or not it changed
finalize_changes_Always(d, f, chg) == [err |-> "none", disk |-> write_file_from_list(f)]

\* Action.__finalize_changes: the exception raised and the file afterwards
finalize_changes(d, f, chg) ==
    IF ~chg THEN [err |-> "NotAppliedError", disk |-> d]
    ELSE [err |-> "none", disk |-> write_file_from_list(f)]

\* the end of the loop and __finalize_changes; DeleteLine.execute then goes on
\* with its next entry
DPFinalize ==
    /\ pc = "scan"
    /\ i >= Len(file)
    /\ LET r == finalize_changes(disk, file, changes)
       IN  /\ disk' = r.disk
           /\ error' = r.err
           /\ IF r.err # "none" THEN pc' = "raised" /\ lidx' = lidx
              ELSE IF lidx < Len(call.rules) THEN pc' = "call" /\ lidx' = lidx + 1
              ELSE pc' = "done" /\ lidx' = lidx
    /\ UNCHANGED <<call, file, i, counter, changes, subs, disk0, cfgIdle, ansVars, impVars>>

(***************************************************************************)
(* Inputs of the line processor specification.                             *)
(***************************************************************************)
DPLines == { <<"a">>, <<SP, "a">>, <<"#", "a">>, ChangelogMarker, <<"a", "b", "a">> }

DPFiles == SeqsUpTo(DPLines, MaxLines) \ {<<>>}

DPTargets == {"specfile", "other.conf"}

DPReplacements ==
    { << <<"x">> >>, << <<"x">>, <<"y">> >>, << <<"x">>, <<"a">>, <<"a", "b", "a">> >> }

DPBlock == << <<"a">>, <<"a", "b", "a">> >>

\* blocks whose second line is a comment, is the %changelog marker
DPBlockComment   == << <<"a">>, <<"#", "a">> >>
DPBlockChangelog == << <<"a">>, ChangelogMarker >>

DPCalls ==
    {[kind |-> "search_and_replace", target |-> t, rules |-> << <<f>> >>,
      replace |-> r, count |-> c, regex |-> x] :
        t \in DPTargets, f \in {<<"a">>, <<"#", "a">>}, r \in DPReplacements,
        c \in {-1, 0, 1}, x \in BOOLEAN}
    \cup
    {[kind |-> "search_and_replace", target |-> t, rules |-> <<DPBlock>>,
      replace |-> r, count |-> c, regex |-> FALSE] :
        t \in DPTargets, r \in DPReplacements, c \in {-1, 0, 1}}
    \cup
    {[kind |-> "search_and_replace", target |-> "specfile", rules |-> <<b>>,
      replace |-> << <<"x">> >>, count |-> -1, regex |-> FALSE] :
        b \in {DPBlockComment, DPBlockChangelog}}
    \cup
    {[kind |-> "delete_line", target |-> t, rules |-> l,
      replace |-> <<>>, count |-> -1, regex |-> FALSE] :
        t \in DPTargets,
        l \in { << <<<<"a">>>> >>, << <<<<"a", "b", "a">>>> >>, <<DPBlock>>,
                << <<<<"a">>>>, <<<<"#", "a">>>> >>, << <<<<"#", "a">>>>, <<<<"a">>>> >>,
                <<DPBlockComment>> }}

InitDP ==
    /\ call \in DPCalls
    /\ disk \in DPFiles
    /\ disk0 = disk
    /\ pc = "call"
    /\ error = "none"
    /\ script = NoScript
    /\ lidx = 1
    /\ file = <<>> /\ i = 0 /\ counter = 0 /\ changes = FALSE /\ subs = <<>>
    /\ loaded_config = [shape |-> "empty", patch |-> <<>>]
    /\ cursor = 0 /\ queue = <<>> /\ executed = <<>>
    /\ plan = [everything_else |-> <<>>, spec_changelog_actions |-> <<>>]
    /\ NullANS
    /\ NullIMP

NextDP ==
    \/ DPBegin
    \/ DPSkipLine
    \/ DPSingleLine
    \/ DPSingleLineRegex
    \/ DPMultiLine
    \/ DPFinalize

SpecDP == InitDP /\ [][NextDP]_vars

(***************************************************************************)
(* Claims about the line processor (specification SpecDP).                 *)
(***************************************************************************)
\* the block fl lies at the 0-based index i0 of f, leading whitespace ignored
BlockAt(f, i0, fl) ==
    /\ i0 + Len(fl) <= Len(f)
    /\ \A j \in 1..Len(fl) : LStrip(f[i0 + j]) = LStrip(fl[j])

\* the find target fl is on no line of f that the skip rule leaves in play
TargetAbsent(f, target, fl) ==
    \A k \in 1..Len(f) :
        \/ skip_line(target, f[k], fl)
        \/ IF Len(fl) = 1 THEN ~Occurs(f[k], fl[1]) ELSE ~BlockAt(f, k - 1, fl)

\* a data_processor run ends: in its read, or after its scan
ReadFails == pc = "call" /\ pc' = "raised"
ScanEnds  == pc = "scan" /\ pc' # "scan"

\* C5 as claimed: a data_processor run in which no line is changed, the find
\* target being absent or only on skipped lines, raises NotAppliedError and
\* leaves the file unchanged; the file is written only when a line changed.
C5_Claimed_NotApplied ==
    [][(ReadFails \/ ScanEnds) =>
          /\ TargetAbsent(disk, call.target, find_lines) =>
                (pc' = "raised" /\ error' = "NotAppliedError" /\ disk' = disk)
          /\ disk' # disk => subs # <<>>]_vars

\* C5 as amended: on a file that has at least one line, a run whose find target
\* is absent or only on skipped lines changes nothing, and a run that changed
\* nothing raises NotAppliedError and leaves the file unchanged; the file is
\* written only when a line changed.  A file without lines makes the run raise
\* FileNotFound in its read, the file unchanged too.
C5_NotApplied ==
    /\ [][ScanEnds =>
             /\ TargetAbsent(disk, call.target, find_lines) => subs = <<>>
             /\ subs = <<>> =>
                   (pc' = "raised" /\ error' = "NotAppliedError" /\ disk' = disk)
             /\ disk' # disk => subs # <<>>]_vars
    /\ [][(pc = "call" /\ disk = <<>>) =>
             (pc' = "raised" /\ error' = "FileNotFound" /\ disk' = disk)]_vars

\* C5's case: the find target is in the file, on skipped lines only, and the
\* run raised NotAppliedError
C5_Witness ==
    /\ pc = "raised"
    /\ error = "NotAppliedError"
    /\ Len(find_lines) = 1
    /\ \E k \in 1..Len(disk) : Occurs(disk[k], find_lines[1])
    /\ TargetAbsent(disk, call.target, find_lines)
    /\ disk = disk0

\* C6 as claimed: a single-line rule (exact or regex) run with count = n >= 0
\* makes at most n substitutions in one scan.
C6_Claimed_CountBound ==
    (pc \in {"scan", "done", "raised"} /\ Len(find_lines) = 1 /\ call.count >= 0)
        => Len(subs) <= call.count

\* the lines of f that an exact single-line rule for `find` may touch
Hits(f, target, find) ==
    {k \in 1..Len(f) : ~skip_line(target, f[k], <<find>>) /\ Occurs(f[k], find)}

Min(S) == CHOOSE k \in S : \A j \in S : k <= j

\* the leading whitespace of a line
LeadingWS(line) ==
    LET n == CHOOSE n \in 0..Len(line) :
                 /\ \A j \in 1..n : line[j] = SP
                 /\ (n < Len(line) => line[n + 1] # SP)
    IN  SubSeq(line, 1, n)

\* the replacement text for a line: the replace lines joined, the lines after
\* the first one indented like the line unless they are blank
ReplacementFor(line, repl) ==
    JoinNL([j \in 1..Len(repl) |->
               IF j > 1 /\ Strip(repl[j]) # <<>> THEN LeadingWS(line) \o repl[j]
               ELSE repl[j]])

\* C7: an exact single-line search_and_replace with count = 1 changes exactly
\* one line: the first non-skipped line that contains find, in which the first
\* occurrence of find becomes the replacement (which may itself span lines);
\* every other line is unchanged and in place.  Without such a line it raises
\* and the file is as before.
C7_ExactReplaceOnce ==
    (/\ call.kind = "search_and_replace"
     /\ ~call.regex /\ call.count = 1
     /\ Len(call.rules[1]) = 1
     /\ pc \in {"done", "raised"})
    => LET find == call.rules[1][1]
           hits == Hits(disk0, call.target, find)
           k    == Min(hits)
           new  == ReplaceFirst(disk0[k], find, ReplacementFor(disk0[k], call.replace))
       IN  IF hits = {} THEN pc = "raised" /\ disk = disk0
           ELSE /\ pc = "done"
                /\ disk = SubSeq(disk0, 1, k - 1) \o SplitAll(<<new>>)
                          \o SubSeq(disk0, k + 1, Len(disk0))

\* C7's case: two lines hold find, the rule ran with count = 1 and the file changed
C7_Witness ==
    /\ call.kind = "search_and_replace"
    /\ ~call.regex /\ call.count = 1
    /\ Len(call.rules[1]) = 1 /\ Len(call.replace) = 1
    /\ pc = "done"
    /\ Cardinality(Hits(disk0, call.target, call.rules[1][1])) >= 2
    /\ disk # disk0

\* the lines of f without those that the skip rule leaves in play and test(line)
Without(f, target, find, test(_)) ==
    SelectSeq(f, LAMBDA line : skip_line(target, line, <<find>>) \/ ~test(line))

\* C8 as claimed: delete_line with a single-line entry L removes every
\* non-skipped line equal to L and changes no other line (read here in the
\* code's favour: equal to L as written, or equal to L once stripped).
C8_Claimed_DeleteEvery ==
    (/\ call.kind = "delete_line"
     /\ Len(call.rules) = 1 /\ Len(call.rules[1]) = 1
     /\ pc = "done")
    => LET L == call.rules[1][1]
       IN  \/ disk = Without(disk0, call.target, L, LAMBDA line : line = L)
           \/ disk = Without(disk0, call.target, L, LAMBDA line : Strip(line) = L)

\* C9: when a multi-line find block matches (leading whitespace ignored), the
\* block is replaced by the replace lines, each prefixed with the leading
\* whitespace of the block's first file line; the lines around it are unchanged.
C9_BlockReplaceIndent ==
    [][(/\ Scanning
        /\ Len(find_lines) > 1
        /\ call.replace # <<>>
        /\ ~skip_line(call.target, file[i + 1], find_lines)
        /\ BlockAt(file, i, find_lines)
        /\ ~Exhausted(counter, call.count))
       => file' = SubSeq(file, 1, i)
                  \o [k \in 1..Len(call.replace) |->
                         LeadingWS(file[i + 1]) \o call.replace[k]]
                  \o SubSeq(file, i + Len(find_lines) + 1, Len(file))]_vars

\* C9's case: an indented block below an untouched line was replaced, and the
\* replacement came out indented
C9_Witness ==
    /\ pc = "done"
    /\ Len(find_lines) > 1
    /\ subs = <<1>>
    /\ Len(disk0) = 3
    /\ disk0[2] = <<SP, "a">>
    /\ call.replace = << <<"x">>, <<"y">> >>
    /\ disk = <<disk0[1], <<SP, "x">>, <<SP, "y">> >>

\* the lines of f that the skip rule covers for the find lines fl, in order
RECURSIVE Covered(_, _, _)
Covered(f, target, fl) ==
    IF f = <<>> THEN <<>>
    ELSE IF skip_line(target, Head(f), fl)
         THEN <<Head(f)>> \o Covered(Tail(f), target, fl)
         ELSE Covered(Tail(f), target, fl)

\* C19 (as stated): with target "specfile" no round of the scan changes or
\* removes a line that the skip rule covers.
\* Violated: the skip rule is applied to the line at the scan index only; the
\* later lines of a matching block are replaced or deleted whatever they are.
C19_Claimed_SkipRuleProtects ==
    [][(Scanning /\ call.target = "specfile")
       => Covered(file', call.target, find_lines) = Covered(file, call.target, find_lines)]_vars

\* C20 (as stated): in one scan, a block replacement at index i moves the
\* scan past the lines it wrote, so two firings of a block rule are at least
\* the length of the replacement apart.
\* Violated: __process_multi_line advances its own copy of i; the loop goes on
\* at i + 1, inside the lines just written, and fires again when they hold
\* the block.
C20_Claimed_BlockFiresOncePerRegion ==
    (pc \in {"scan", "done"} /\ Len(find_lines) > 1 /\ call.replace # <<>>) =>
       \A j, k \in 1..Len(subs) :
          j < k => subs[k] >= subs[j] + Len(call.replace)

\* C21 (as stated): every scan of data_processor ends and the line list
\* stays bounded.  A scan that moves past what it writes fires at most once
\* per line it read, which bounds the list by the lines read plus what those
\* firings add.
\* Violated: with count = -1 and a replacement that holds the find block, every
\* round fires on the lines the round before wrote; each round adds a line
\* and moves the index by one, so the index never reaches the end.
C21_Claimed_ScanTerminates ==
    pc = "scan" =>
       /\ Len(subs) <= Len(disk)
       /\ Len(file) <= Len(disk) + Len(disk) * Len(call.replace)

\* C28 as claimed: a delete_line action that raised did so with
\* NotAppliedError, at the first entry of `lines` that was not found, and the
\* target file is what it was before the action started.
\* Violated: data_processor writes the file at the end of every run, so the
\* deletions of the entries before the one that was not found stay on disk.
C28_Claimed_DeleteLineAllOrNothing ==
    (call.kind = "delete_line" /\ pc = "raised") =>
       /\ error = "NotAppliedError"
       /\ disk = disk0

(***************************************************************************)
(* srpmproc/util.py: adding a Source or Patch directive to a spec.         *)
(* A spec line is a record: k is what the line starts with, n the number   *)
(* written after it (-1: no digits), name the file it names, as the        *)
(* sequence of its dot-separated parts.  The regular expressions of        *)
(* util.py become tests on k and n.                                        *)
(***************************************************************************)
Ln(k, n, name) == [k |-> k, n |-> n, name |-> name]

\* an optional value: None, or a value
NoneV   == [some |-> FALSE, v |-> 0]
Some(v) == [some |-> TRUE, v |-> v]

\* RpmSpecDirectives and RpmSpecPatchTypes
PATCH  == "Patch"
SOURCE == "Source"
RpmSpecPatchTypes == {"OBSOLETE", "P_SPACE", "P_NOSPACE", "KERNEL", "INC_FILE", "AUTOSETUP"}

\* list.insert(idx, x): a negative index counts from the end, an index past
\* either end is clamped
PyInsert(s, idx, x) ==
    LET n == Len(s)
        k == IF idx < 0 THEN (IF n + idx < 0 THEN 0 ELSE n + idx) ELSE idx
    IN  InsertAt(s, k, x)

\* re.match(r"^%endif\b", line)
IsEndif(line) == line.k = "%endif"

\* re.match(r"^%if*", line): "%i" and any number of "f", so %include matches too
IsIfStar(line) == line.k \in {"%if", "%include"}

\* generate_patch_line: the line, or the raise for a type without a line
generate_patch_line(patch_name, patch_number, directive_type) ==
    CASE directive_type = "OBSOLETE"  -> [err |-> "none", line |-> Ln("%patchN", patch_number, <<>>)]
      [] directive_type = "P_SPACE"   -> [err |-> "none", line |-> Ln("%patch -P N", patch_number, <<>>)]
      [] directive_type = "P_NOSPACE" -> [err |-> "none", line |-> Ln("%patch -PN", patch_number, <<>>)]
      [] directive_type = "KERNEL"    -> [err |-> "none", line |-> Ln("ApplyPatch", -1, Append(patch_name, "patch"))]
      [] OTHER -> [err |-> "RpmParseError", line |-> Ln("", -1, <<>>)]

\* the loop of get_last_directive from the 0-based index i0 on; it breaks at the
\* first line that matches "<directive>([0-9]*):"
RECURSIVE LastDirectiveLoop(_, _, _, _)
LastDirectiveLoop(sd, directive_type, i0, st) ==
    IF i0 >= Len(sd) THEN st
    ELSE LET line == sd[i0 + 1]
             s1 == IF IsEndif(line)
                   THEN [st EXCEPT !.conditional = TRUE, !.last_endif_idx = Some(i0 - 1)]
                   ELSE IF IsIfStar(line) /\ st.conditional
                   THEN [st EXCEPT !.conditional = FALSE]
                   ELSE st
         IN  IF line.k = directive_type
             THEN [s1 EXCEPT !.last_idx = IF ~s1.conditional THEN Some(i0) ELSE @,
                             !.last_number = Some(IF line.n >= 0 THEN line.n ELSE 0),
                             !.no_numbers = (line.n < 0)]
             ELSE LastDirectiveLoop(sd, directive_type, i0 + 1, s1)

\* get_last_directive: (last_number, last_idx, no_numbers), or the raise
get_last_directive(sd, directive_type) ==
    LET st == LastDirectiveLoop(sd, directive_type, 0,
                  [last_number |-> NoneV, last_idx |-> NoneV, no_numbers |-> FALSE,
                   conditional |-> FALSE, last_endif_idx |-> NoneV])
        last_idx == IF ~st.last_idx.some /\ st.last_endif_idx.some
                    THEN st.last_endif_idx ELSE st.last_idx
    IN  [err |-> IF ~st.last_number.some /\ directive_type # PATCH
                 THEN "RpmParseError" ELSE "none",
         last_number |-> st.last_number, last_idx |-> last_idx,
         no_numbers |-> st.no_numbers]

\* the numbers of the lines "<directive><digits>:" of the list
IdsOf(sd, directive) ==
    {sd[k].n : k \in {j \in 1..Len(sd) : sd[j].k = directive /\ sd[j].n >= 0}}

\* get_source_ids: returns (patches, sources)
get_source_ids(sd) == <<IdsOf(sd, PATCH), IdsOf(sd, SOURCE)>>

\* get_patch_type_by_line; every pattern asks for a digit but the kernel one
get_patch_type_by_line(line) ==
    CASE line.k = "%patchN" /\ line.n >= 0     -> "OBSOLETE"
      [] line.k = "%patch -P N" /\ line.n >= 0 -> "P_SPACE"
      [] line.k = "%patch -PN" /\ line.n >= 0  -> "P_NOSPACE"
      [] line.k = "ApplyPatch"                 -> "KERNEL"
      [] OTHER -> "None"

\* rpmutil.spec_autosetup
spec_autosetup(rpm_spec) == \E k \in 1..Len(rpm_spec) : rpm_spec[k].k = "%autosetup"

\* get_patch_type
get_patch_type(sd, package_name, patch_file) ==
    IF package_name = "kernel" THEN "KERNEL"
    ELSE IF patch_file THEN "INC_FILE"
    ELSE IF spec_autosetup(sd) THEN "AUTOSETUP"
    ELSE LET typed == {k \in 1..Len(sd) : get_patch_type_by_line(sd[k]) # "None"}
         IN  IF typed = {} THEN "None"
             ELSE get_patch_type_by_line(sd[CHOOSE k \in typed : \A j \in typed : k <= j])

\* the loop of get_patch_idx_insert from the 0-based index i0 on
RECURSIVE PatchIdxLoop(_, _, _)
PatchIdxLoop(sd, i0, st) ==
    IF i0 >= Len(sd) THEN st
    ELSE LET line == sd[i0 + 1]
             s1 == IF ~st.last_patch_idx.some /\ IsEndif(line)
                   THEN [st EXCEPT !.conditional = TRUE, !.start_idx = Some(i0)]
                   ELSE IF IsIfStar(line) /\ st.conditional
                   THEN [st EXCEPT !.conditional = FALSE,
                                   !.start_idx = IF ~st.last_patch_idx.some THEN NoneV ELSE @]
                   ELSE st
             s2 == IF ~s1.last_patch_idx.some /\ get_patch_type_by_line(line) # "None"
                   THEN [s1 EXCEPT !.last_patch_idx = Some(i0)]
                   ELSE s1
         IN  PatchIdxLoop(sd, i0 + 1, s2)

\* get_patch_idx_insert: the index to insert the patch line at, or None
get_patch_idx_insert(sd) ==
    LET st == PatchIdxLoop(sd, 0, [conditional |-> FALSE, start_idx |-> NoneV,
                                   last_patch_idx |-> NoneV])
    IN  IF st.start_idx.some THEN st.start_idx ELSE st.last_patch_idx

\* get_setup_line: the index of the first %setup line, or None
get_setup_line(sd) ==
    LET setups == {k \in 1..Len(sd) : sd[k].k = "%setup"}
    IN  IF setups = {} THEN NoneV
        ELSE Some((CHOOSE k \in setups : \A j \in setups : k <= j) - 1)

\* a mutant of get_new_number: an explicit number is never looked up
get_new_number_NoCheck(sd, no_numbers, directive_type, last_number, source_number) ==
    IF no_numbers THEN [err |-> "none", new_number |-> -1]
    ELSE IF ~last_number.some THEN [err |-> "TypeError", new_number |-> -1]
    ELSE IF source_number = [t |-> "int", v |-> -1]
    THEN [err |-> "none", new_number |-> last_number.v + 1]
    ELSE [err |-> "none", new_number |-> source_number.v]

\* get_new_number: the digits of the new directive (-1: none), or the raise.
\* The pair of get_source_ids is unpacked as (sources, patches); a number given
\* as a string is in no list of integers.
get_new_number(sd, no_numbers, directive_type, last_number, source_number) ==
    LET ids == get_source_ids(sd)
        current_source_ids == ids[1]
        current_patch_ids  == ids[2]
        found(current) == source_number.t = "int" /\ source_number.v \in current
    IN  IF no_numbers THEN [err |-> "none", new_number |-> -1]
        ELSE IF ~last_number.some THEN [err |-> "TypeError", new_number |-> -1]
        ELSE IF source_number = [t |-> "int", v |-> -1]
        THEN [err |-> "none", new_number |-> last_number.v + 1]
        ELSE IF \/ directive_type = PATCH /\ found(current_patch_ids)
                \/ directive_type = SOURCE /\ found(current_source_ids)
        THEN [err |-> "RpmParseError", new_number |-> -1]
        ELSE [err |-> "none", new_number |-> source_number.v]

\* add_patch_line: the list afterwards, and the raise if any; the patch name
\* is ''.join(source_name.split('.')[:-1]), the parts before the last one
add_patch_line(sd, source_name, patch_type, new_number) ==
    IF patch_type = "INC_FILE" THEN [err |-> "none", spec_data |-> sd]
    ELSE LET insert_idx == get_patch_idx_insert(sd)
             setup_idx  == get_setup_line(sd)
             patch_name == SubSeq(source_name, 1, Len(source_name) - 1)
         IN  IF insert_idx.some
             THEN IF patch_type = "AUTOSETUP" THEN [err |-> "none", spec_data |-> sd]
                  ELSE LET g == generate_patch_line(patch_name, new_number, patch_type)
                       IN  IF g.err # "none" THEN [err |-> g.err, spec_data |-> sd]
                           ELSE [err |-> "none",
                                 spec_data |-> PyInsert(sd, insert_idx.v, g.line)]
             ELSE IF patch_type = "AUTOSETUP" THEN [err |-> "none", spec_data |-> sd]
             ELSE IF setup_idx.some
             THEN [err |-> "none",
                   spec_data |-> PyInsert(sd, setup_idx.v,
                       generate_patch_line(patch_name, new_number, "P_SPACE").line)]
             ELSE [err |-> "RpmParseError", spec_data |-> sd]

\* add_new_source: the list afterwards (it is edited in place, so a raise
\* leaves it as it was at the raise), and the raise if any
add_new_source(sd, source_name, directive_type, package_name, patch_file, source_number) ==
    LET r0  == Reverse(sd)
        gld == get_last_directive(r0, directive_type)
        patch_type == get_patch_type(r0, package_name, patch_file)
        gnn == get_new_number(r0, gld.no_numbers, directive_type,
                              gld.last_number, source_number)
        r1  == PyInsert(r0, gld.last_idx.v, Ln(directive_type, gnn.new_number, source_name))
        apl == add_patch_line(r1, source_name, patch_type, gnn.new_number)
    IN  IF gld.err # "none" THEN [err |-> gld.err, spec_data |-> r0]
        ELSE IF gnn.err # "none" THEN [err |-> gnn.err, spec_data |-> r0]
        ELSE IF ~gld.last_idx.some THEN [err |-> "TypeError", spec_data |-> r0]
        ELSE IF directive_type = PATCH /\ patch_type # "INC_FILE"
        THEN IF apl.err # "none" THEN [err |-> apl.err, spec_data |-> apl.spec_data]
             ELSE [err |-> "none", spec_data |-> Reverse(apl.spec_data)]
        ELSE [err |-> "none", spec_data |-> Reverse(r1)]

(***************************************************************************)
(* AddFile.execute calling add_new_source, up to MaxCalls times on a spec. *)
(***************************************************************************)
\* the number handed over: -1 for "latest", or the string of the config
\* (AddFile.allowed_keys makes it a str), or an integer from a direct caller
IntNum(n) == [t |-> "int", v |-> n]
StrNum(n) == [t |-> "str", v |-> n]
SourceNumbers == {IntNum(-1), IntNum(0), IntNum(1), StrNum(0)}

NewName == <<"b", "patch">>

\* one call of add_new_source on the list; a raise ends the run
AddNewSource(directive_type) ==
    /\ pc = "add"
    /\ last_call.n < MaxCalls
    /\ \E source_number \in SourceNumbers :
         LET r == add_new_source(spec_data, NewName, directive_type,
                                 package.name, package.patches_file, source_number)
         IN  /\ spec_data' = r.spec_data
             /\ error' = r.err
             /\ pc' = IF r.err = "none" THEN "add" ELSE "raised"
             /\ last_call' = [n |-> last_call.n + 1, directive_type |-> directive_type,
                              source_number |-> source_number, before |-> spec_data]
    /\ UNCHANGED <<package, disk, disk0, cfgIdle, dpVars, impVars>>

AddSource == AddNewSource(SOURCE)
AddPatch  == AddNewSource(PATCH)

\* the lines of the spec files
Src(n)    == Ln(SOURCE, n, <<"a", "tar">>)
Pat(n)    == Ln(PATCH, n, <<"a", "patch">>)
If        == Ln("%if", -1, <<>>)
Endif     == Ln("%endif", -1, <<>>)
Include   == Ln("%include", -1, <<>>)
Setup     == Ln("%setup", -1, <<>>)
Autosetup == Ln("%autosetup", -1, <<>>)
PatchN(n) == Ln("%patchN", n, <<>>)
Other     == Ln("other", -1, <<>>)

SpecDatas ==
    { <<Src(0), Setup>>,
      <<Src(0), Pat(0), Setup, PatchN(0)>>,
      <<Src(1), Src(0), Pat(0), Setup, Ln("%patch -P N", 0, <<>>)>>,
      <<Src(0), If, Src(1), Endif, Setup>>,
      <<Src(0), If, Src(1), Include, Endif, Setup>>,
      <<Src(0), Pat(0), Autosetup>>,
      <<Src(-1), Setup>>,
      <<Src(0), Pat(0), Setup>>,
      <<Src(0), Pat(0), Other>>,
      <<If, Src(0), Endif, Pat(1), Setup, If, PatchN(1), Endif>>,
      <<Pat(0), Other, Setup, Ln("%patch -PN", 0, <<>>)>> }

Packages ==
    { [name |-> "pkg", patches_file |-> FALSE],
      [name |-> "pkg", patches_file |-> TRUE],
      [name |-> "kernel", patches_file |-> FALSE] }

InitANS ==
    /\ spec_data \in SpecDatas
    /\ package \in Packages
    /\ last_call = [n |-> 0, directive_type |-> "", source_number |-> IntNum(-1),
                    before |-> <<>>]
    /\ pc = "add"
    /\ error = "none"
    /\ script = NoScript
    /\ disk = <<>> /\ disk0 = <<>>
    /\ loaded_config = [shape |-> "empty", patch |-> <<>>]
    /\ cursor = 0 /\ queue = <<>> /\ executed = <<>>
    /\ plan = [everything_else |-> <<>>, spec_changelog_actions |-> <<>>]
    /\ NullDP
    /\ NullIMP

NextANS ==
    \/ AddSource
    \/ AddPatch

SpecANS == InitANS /\ [][NextANS]_vars

(***************************************************************************)
(* Claims about add_new_source (specification SpecANS).                    *)
(***************************************************************************)
\* C10 as claimed: a call of add_new_source with an explicit number that
\* already exists as a directive of the requested type raises RpmParseError and
\* leaves the spec line list exactly as it was before the call.
C10_Claimed_ExistingNumberRaises ==
    (/\ last_call.n > 0
     /\ last_call.source_number.t = "int"
     /\ last_call.source_number.v >= 0
     /\ \E k \in 1..Len(last_call.before) :
            /\ last_call.before[k].k = last_call.directive_type
            /\ last_call.before[k].n = last_call.source_number.v)
    => (error = "RpmParseError" /\ spec_data = last_call.before)

\* how many times a line is in the list
CountOf(sd, line) == Cardinality({k \in 1..Len(sd) : sd[k] = line})

Max(S) == CHOOSE k \in S : \A j \in S : j <= k

\* the directives of the requested type in the list before the last call
DirectivesBefore ==
    {k \in 1..Len(last_call.before) : last_call.before[k].k = last_call.directive_type}

\* C11 as claimed: a call with number "latest" on a spec whose directives of
\* the requested type are numbered inserts a directive numbered (highest
\* existing number of that type) + 1; when they are unnumbered the new one is
\* unnumbered too.
C11_Claimed_LatestIsHighestPlusOne ==
    (/\ last_call.n > 0
     /\ last_call.source_number = IntNum(-1)
     /\ error = "none"
     /\ DirectivesBefore # {})
    => LET numbers == {last_call.before[k].n : k \in DirectivesBefore}
           new(n)  == Ln(last_call.directive_type, n, NewName)
           added(n) == CountOf(spec_data, new(n)) = CountOf(last_call.before, new(n)) + 1
       IN  /\ (\A n \in numbers : n >= 0) => added(Max(numbers) + 1)
           /\ numbers = {-1} => added(-1)

\* no two numbered Source lines and no two numbered Patch lines of the list
\* carry the same number
UniqueNumbers(sd) ==
    \A j, k \in 1..Len(sd) :
        (/\ j # k
         /\ sd[j].k \in {SOURCE, PATCH}
         /\ sd[j].k = sd[k].k
         /\ sd[j].n >= 0) => sd[j].n # sd[k].n

\* C22 (as stated): a successful add_new_source call on a spec whose numbers
\* are unique per directive type leaves them unique (so they stay unique over
\* any sequence of successful calls).
\* Violated: "latest" numbers after the last directive of the file, not after
\* the highest, and the explicit-number test looks into the ids of the other
\* directive type.
C22_Claimed_NumbersStayUnique ==
    (last_call.n > 0 /\ error = "none" /\ UniqueNumbers(last_call.before))
    => UniqueNumbers(spec_data)

\* how many conditional blocks are open where the line at index p stands
IfDepth(sd, p) ==
    Cardinality({j \in 1..(p - 1) : sd[j].k = "%if"})
    - Cardinality({j \in 1..(p - 1) : sd[j].k = "%endif"})

\* C23 (as stated): the directive that add_new_source inserts never stands
\* between an %if and its %endif.
\* Violated: the pattern that recognises %if in the reversed scan also
\* matches %include, which closes the conditional too early.
C23_Claimed_NeverInsideConditional ==
    (last_call.n > 0 /\ error = "none") =>
       \A p \in 1..Len(spec_data) :
          (spec_data[p].k \in {SOURCE, PATCH} /\ spec_data[p].name = NewName)
          => IfDepth(spec_data, p) = 0

\* the lines that apply a patch (%patchN, %patch -P N, %patch -PN, ApplyPatch)
IsPatchApply(line) == get_patch_type_by_line(line) # "None"
ApplyCount(sd) == Cardinality({j \in 1..Len(sd) : IsPatchApply(sd[j])})

\* the list without the lines at the two positions
WithoutTwo(sd, p, d) ==
    LET keep == [j \in 1..(Len(sd) - 2) |->
                    LET lo == IF p < d THEN p ELSE d
                        hi == IF p < d THEN d ELSE p
                    IN  IF j < lo THEN sd[j]
                        ELSE IF j + 1 < hi THEN sd[j + 1] ELSE sd[j + 2]]
    IN  keep

\* the patch-apply line at p is anchored: next to an existing patch-apply line
\* (closing %endif lines apart) when the spec had one, else right after %setup
Anchored(sd, p, before) ==
    IF ApplyCount(before) > 0
    THEN \E q \in 1..Len(sd) :
            /\ q # p /\ IsPatchApply(sd[q])
            /\ \A j \in (Min({p, q}) + 1)..(Max({p, q}) - 1) : IsEndif(sd[j])
    ELSE p > 1 /\ sd[p - 1].k = "%setup"

\* the call added one Patch directive and one patch-apply line with its number
\* at the anchor, and nothing else
OnePatchLineAdded(sd, before) ==
    /\ Len(sd) = Len(before) + 2
    /\ \E p, d \in 1..Len(sd) :
          /\ p # d
          /\ WithoutTwo(sd, p, d) = before
          /\ sd[d].k = PATCH /\ sd[d].name = NewName
          /\ IsPatchApply(sd[p])
          /\ (sd[p].k # "ApplyPatch" => sd[p].n = sd[d].n)
          /\ Anchored(sd, p, before)

\* the number asked for is free (or "latest" is asked for)
NumberIsFree(before, source_number) ==
    \/ source_number = IntNum(-1)
    \/ source_number.v \notin IdsOf(before, PATCH)

\* C24 as claimed: a call of add_new_source that adds a patch with a free
\* number to a spec that is neither manifest-governed nor autosetup-based adds
\* exactly one patch-apply line with the new number, next to the nearest
\* existing patch-apply line or else right after %setup, and raises
\* RpmParseError when the spec has neither; for an autosetup spec or a
\* manifest-governed package the number of patch-apply lines stays the same.
\* Violated: on a spec without a Patch directive the "latest" number is
\* None + 1 and an explicit one is inserted at index None, so the call raises
\* a TypeError before any patch-apply line is written.
C24_Claimed_OnePatchApplyLine ==
    (last_call.n > 0 /\ last_call.directive_type = PATCH
        /\ NumberIsFree(last_call.before, last_call.source_number)) =>
       IF package.patches_file \/ spec_autosetup(last_call.before)
       THEN ApplyCount(spec_data) = ApplyCount(last_call.before)
       ELSE IF ApplyCount(last_call.before) > 0
               \/ \E j \in 1..Len(last_call.before) : last_call.before[j].k = "%setup"
       THEN error = "none" /\ OnePatchLineAdded(spec_data, last_call.before)
       ELSE error = "RpmParseError"

(***************************************************************************)
(* Constructing one Action from a parameter dict (specification SpecAction)*)
(***************************************************************************)
\* Action.__init__: keep the data, then validate; a raise aborts construction
Construct ==
    /\ pc = "new"
    /\ LET e == validate(queue[1].cls, queue[1].data)
       IN  /\ error' = e
           /\ pc' = IF e = "none" THEN "constructed" ELSE "raised"
    /\ executed' = Append(executed, "__init__")
    /\ UNCHANGED <<queue, loaded_config, cursor, plan, disk, disk0, script, dpVars, ansVars, impVars>>

\* Action.find_file_name, given how many files of the package match the name
find_file_name(matching) ==
    IF matching > 1 THEN raises("TooManyFilesError", 1)
    ELSE IF matching = 0 THEN raises("FileNotFound", 1)
    ELSE "none"

\* the first step of an execute that edits a file: find_file_name
FindFile ==
    /\ pc = "constructed"
    /\ LET e == find_file_name(package.matching)
       IN  /\ error' = e
           /\ pc' = IF e = "none" THEN "found" ELSE "raised"
    /\ executed' = Append(executed, "find_file_name")
    /\ UNCHANGED <<queue, loaded_config, cursor, plan, disk, disk0, script, dpVars, ansVars, impVars>>

\* the dicts with `key` absent or bound to one of `vals`
NoKeys == [k \in {} |-> None]
Opt(key, vals) == {NoKeys} \cup {[k \in {key} |-> v] : v \in vals}
Req(key, vals) == {[k \in {key} |-> v] : v \in vals}

AppendReleaseDicts ==
    {a @@ b @@ c :
        a \in Opt("suffix", {Str(<<".1">>), Str(<<>>), None, List(<<>>)}),
        b \in Opt("enabled", {Bool(TRUE), Bool(FALSE), Str(<<"yes">>), None}),
        c \in Opt("extra", {Str(<<"x">>)})}

SearchAndReplaceDicts ==
    {t @@ a @@ b @@ c @@ d :
        t \in Req("target", {Str(<<"specfile">>)}),
        a \in Opt("find", {Str(<<"a">>), Str(<<>>)}),
        b \in Opt("replace", {Str(<<"x">>), Str(<<>>)}),
        c \in Opt("count", {Integer(<<"0">>), Integer(<<"1">>), Bool(TRUE),
                            Str(<<"1">>), None}),
        d \in Opt("regex", {Bool(FALSE), Integer(<<"0">>)})}

AddFileDicts ==
    {a @@ b @@ c @@ d :
        a \in Opt("type", {Str(<<"patch">>), Str(<<"source">>), Str(<<"other">>),
                           List(<<"patch">>)}),
        b \in Req("name", {Str(<<"b">>)}),
        c \in Opt("number", {Str(<<"latest">>), Str(<<"1">>), Integer(<<"1">>)}),
        d \in Opt("add_to_spec", {Bool(FALSE)})}

DeleteLineDicts ==
    {t @@ a :
        t \in Req("target", {Str(<<"specfile">>)}),
        a \in Opt("lines", {List(<<"a">>), List(<<>>), Str(<<"a">>), Dict(<<>>), None})}

ActionInputs ==
    {[cls |-> "AppendRelease", data |-> d] : d \in AppendReleaseDicts}
    \cup {[cls |-> "SearchAndReplace", data |-> d] : d \in SearchAndReplaceDicts}
    \cup {[cls |-> "AddFile", data |-> d] : d \in AddFileDicts}
    \cup {[cls |-> "DeleteLine", data |-> d] : d \in DeleteLineDicts}

InitAction ==
    /\ \E a \in ActionInputs : queue = <<a>>
    /\ pc = "new"
    /\ error = "none"
    /\ script = NoScript
    /\ loaded_config = [shape |-> "empty", patch |-> <<>>]
    /\ cursor = 0 /\ executed = <<>>
    /\ plan = [everything_else |-> <<>>, spec_changelog_actions |-> <<>>]
    /\ disk = <<>> /\ disk0 = <<>>
    /\ NullDP
    /\ spec_data = <<>>
    /\ last_call = [n |-> 0, directive_type |-> "", source_number |-> IntNum(-1),
                    before |-> <<>>]
    /\ \E n \in 0..MaxMatching :
          package = [name |-> "pkg", patches_file |-> FALSE, matching |-> n]
    /\ NullIMP

NextAction ==
    \/ Construct
    \/ FindFile

SpecAction == InitAction /\ [][NextAction]_vars

(***************************************************************************)
(* Claims about Action construction (specification SpecAction).            *)
(***************************************************************************)
\* the last call made was the constructor / was find_file_name
Constructing == executed = <<"__init__">>
Finding      == executed = <<"__init__", "find_file_name">>

\* the type declared for a key of a class
DeclaredType(cls, key) ==
    LET k == CHOOSE k \in 1..Len(allowed_keys[cls]) : allowed_keys[cls][k][1] = key
    IN  allowed_keys[cls][k][2]

\* every required key present, no key outside allowed_keys, every present value
\* an instance of its declared type and none of None, "", [], {}
KeysAndValuesOK(cls, data) ==
    /\ required_keys[cls] \subseteq DOMAIN data
    /\ DOMAIN data \subseteq AllowedNames(cls)
    /\ \A key \in DOMAIN data :
          /\ \/ data[key].t = DeclaredType(cls, key)
             \/ (DeclaredType(cls, key) = "int" /\ data[key].t = "bool")
          /\ data[key] \notin {None, Str(<<>>), List(<<>>), Dict(<<>>)}

\* C12 as claimed: constructing an Action succeeds exactly when every required
\* key is present, no key outside allowed_keys is present and every present
\* value is an instance of its declared type and none of None, "", [], {}.
C12_Claimed_ConstructsExactlyWhen ==
    Constructing =>
        (pc = "constructed" <=> KeysAndValuesOK(queue[1].cls, queue[1].data))

\* C12 as amended: ... and, for an AddFile, "type" is "patch" or "source"; in
\* every other case construction raises.  enabled=false and count=0 are
\* accepted as non-empty values.
C12_ConstructsExactlyWhen ==
    Constructing =>
        LET cls == queue[1].cls  data == queue[1].data
        IN  /\ pc = "constructed" <=>
                  /\ KeysAndValuesOK(cls, data)
                  /\ cls = "AddFile" => data["type"].v \in {<<"patch">>, <<"source">>}
            /\ pc = "raised" <=> error # "none"

\* C12's case: an action constructed with the falsy values count=0, regex=false
C12_Witness ==
    /\ pc = "constructed"
    /\ Constructing
    /\ queue[1].cls = "SearchAndReplace"
    /\ DOMAIN queue[1].data = {"target", "find", "replace", "count", "regex"}
    /\ queue[1].data["count"] = Integer(<<"0">>)
    /\ queue[1].data["regex"] = Bool(FALSE)

\* the faults of a parameter dict with the error kind claimed for each
ClaimedKinds(cls, data) ==
    {"PatchConfigValueError" : x \in {1} \cap
        {1 : k \in (required_keys[cls] \ DOMAIN data) \cup (DOMAIN data \ AllowedNames(cls))
                   \cup {k \in DOMAIN data \cap AllowedNames(cls) :
                            data[k] \in {None, Str(<<>>), List(<<>>), Dict(<<>>)}}}}
    \cup
    {"PatchConfigTypeError" : x \in {1} \cap
        {1 : k \in {k \in DOMAIN data \cap AllowedNames(cls) :
                       ~IsInstance(data[k], DeclaredType(cls, k))}
                   \cup {k \in {"type"} \cap DOMAIN data :
                            cls = "AddFile" /\ data[k].v \notin {<<"patch">>, <<"source">>}}}}

\* C13 as claimed: every configuration error surfaces as a typed patch-config
\* error with its fault code: missing key, unexpected key and empty value as
\* PatchConfigValueError (9601), wrong type and invalid AddFile type as
\* PatchConfigTypeError (9602), zero or several matching files as FileNotFound /
\* TooManyFilesError (9603); none surfaces as a built-in exception without a
\* fault code.  (With several faults in one dict any of their kinds is allowed.)
C13_Claimed_TypedErrors ==
    pc = "raised" =>
        /\ fault_code(error) # 0
        /\ Constructing => error \in ClaimedKinds(queue[1].cls, queue[1].data)
        /\ Finding =>
              \/ package.matching = 0 /\ error = "FileNotFound"
              \/ package.matching > 1 /\ error = "TooManyFilesError"

(***************************************************************************)
(* srpmproc/rpm.py: RpmImport.srpmproc_import (specification SpecImport).  *)
(* remote is the patch repository: refs, what ls-remote lists;             *)
(* main_files and branch_files, the YAML files at the top of its main      *)
(* branch and of its branch named after the destination branch.            *)
(* imp holds the locals of srpmproc_import and __perform_patch, the        *)
(* working directories that exist (dirs), the exception in flight (raised) *)
(* and the exit code of the process (-1 while it runs).                    *)
(* executed logs the YAML lookups <<"find", name>> and the Config runs     *)
(* <<"run", config, package_path>>, in order.                              *)
(***************************************************************************)
DestBranch  == "r9"
MainYml     == "main.yml"
BranchYml   == "r9.yml"
PackageYml  == "pkg.yml"
SourceDir   == "/var/tmp/pkg-source"
DestDir     == "/var/tmp/pkg-dest"
PatchDir    == "/var/tmp/pkg-patch"

\* the except clauses of srpmproc_import: the fault they set for an exception.
\* SystemExit is no Exception, no clause catches it.
TypedKinds == {"ConfigurationError", "FileNotFound", "TooManyFilesError",
               "NotAppliedError", "PatchConfigTypeError", "PatchConfigValueError"}

except_fault(exc) == IF exc \in TypedKinds THEN fault_code(exc) ELSE 2

\* an exception leaves the try block: `kind` is what went wrong, `inflight`
\* the exception that travels (SystemExit after a sys.exit(2))
Abort(kind, inflight, dirs) ==
    /\ error' = kind
    /\ imp' = [imp EXCEPT !.raised = inflight, !.dirs = dirs]
    /\ pc' = "except"

ImportIdle == <<loaded_config, cursor, queue, plan, disk, disk0, script, dpVars, ansVars, remote, fs>>

\* __clone_source
CloneSource ==
    /\ pc = "clone_source"
    /\ \/ \E kind \in {"GitInitError", "Exception", "GitCheckoutError"} :
             \* lsremote or ref_check raised: logged, then sys.exit(2)
             Abort(kind, "SystemExit", imp.dirs)
       \/ Abort("GitInitError", "GitInitError", imp.dirs)     \* gitutil.clone raised
       \/ Abort("ConfigurationError", "ConfigurationError",   \* find_spec_file raised
                imp.dirs \cup {SourceDir})
       \/ /\ imp' = [imp EXCEPT !.dirs = @ \cup {SourceDir}]
          /\ pc' = "clone_dest"
          /\ error' = error
    /\ UNCHANGED <<executed, ImportIdle>>

\* __clone_dest
CloneDest ==
    /\ pc = "clone_dest"
    /\ \/ \E kind \in {"GitInitError", "Exception"} :
             Abort(kind, "SystemExit", imp.dirs)
       \/ Abort("GitInitError", "GitInitError", imp.dirs)
       \/ Abort("GitCheckoutError", "GitCheckoutError", imp.dirs \cup {DestDir})
       \/ /\ imp' = [imp EXCEPT !.dirs = @ \cup {DestDir}]
          /\ pc' = "clone_patch_repo"
          /\ error' = error
    /\ UNCHANGED <<executed, ImportIdle>>

\* __clone_patch_repo and the unpacking of what it returns
ClonePatchRepo ==
    /\ pc = "clone_patch_repo"
    /\ LET main_ref_check   == "refs/heads/main" \in remote.refs
           branch_ref_check == ("refs/main/" \o DestBranch) \in remote.refs
       IN  \/ \* lsremote raised GitInitError: `return None`, which the caller
              \* cannot unpack into three names
              /\ error' = "GitInitError"
              /\ imp' = [imp EXCEPT !.raised = "TypeError", !.no_patch_repo = TRUE]
              /\ pc' = "except"
           \/ Abort("Exception", "SystemExit", imp.dirs)
           \/ /\ main_ref_check \/ branch_ref_check
              /\ Abort("GitInitError", "GitInitError", imp.dirs)   \* clone raised
           \/ /\ main_ref_check \/ ~branch_ref_check
                 \/ ("refs/heads/" \o DestBranch) \in remote.refs
              /\ imp' = [imp EXCEPT
                     !.patch = main_ref_check \/ branch_ref_check,
                     !.checked_out = IF main_ref_check THEN "main"
                                     ELSE IF branch_ref_check THEN DestBranch ELSE "",
                     !.main_ref = main_ref_check,
                     !.branch_ref = (main_ref_check \/ branch_ref_check) /\ branch_ref_check,
                     !.dirs = IF main_ref_check \/ branch_ref_check
                              THEN @ \cup {PatchDir} ELSE @]
              /\ pc' = "find_main_yaml"
              /\ error' = error
    /\ UNCHANGED <<executed, ImportIdle>>

\* the YAML files at the top of the patch clone, by the branch checked out
FilesOf(branch) == IF branch = "main" THEN remote.main_files ELSE remote.branch_files

\* __find_single_yaml: a glob for one file name in one directory
find_single_yaml(branch, filename) ==
    IF filename \in FilesOf(branch) THEN Some(filename) ELSE NoneV

\* __perform_patch, `if dest_branch and not branch_yaml_exists`: whether the
\* package's own YAML is looked for
consult_package_Always(dest_branch, branch_yaml_exists) == dest_branch

consult_package(dest_branch, branch_yaml_exists) ==
    dest_branch /\ ~branch_yaml_exists

\* __perform_patch, `if main_branch:`: the look-ups of main.yml and of
\* <dest_branch>.yml on the main branch
FindYamls ==
    /\ pc = "find_main_yaml"
    /\ IF imp.main_ref
       THEN LET main_yaml   == find_single_yaml("main", MainYml)
                branch_yaml == find_single_yaml("main", BranchYml)
                list1 == IF main_yaml.some THEN <<main_yaml.v>> ELSE <<>>
                list2 == IF branch_yaml.some THEN Append(list1, branch_yaml.v) ELSE list1
            IN  /\ executed' = executed \o <<<<"find", MainYml>>, <<"find", BranchYml>>>>
                /\ imp' = [imp EXCEPT !.patch_config_list = list2,
                                      !.branch_yaml_exists = branch_yaml.some]
       ELSE UNCHANGED <<executed, imp>>
    /\ pc' = "apply"
    /\ UNCHANGED <<error, ImportIdle>>

\* what Config(config=path).run(dest_path) can raise (srpmproc/editor.py and
\* the utilities it calls); TypeError is a patch-config error built with one
\* argument
ConfigRaises == {"NotAppliedError", "FileNotFound", "PatchConfigValueError",
                 "TypeError", "RpmParseError", "GitApplyError"}

\* __perform_patch, `for patch_path in patch_config_list:` one iteration
RunConfig ==
    /\ pc = "apply"
    /\ imp.next <= Len(imp.patch_config_list)
    /\ executed' = Append(executed, <<"run", imp.patch_config_list[imp.next], DestDir>>)
    /\ \/ \E kind \in ConfigRaises : Abort(kind, kind, imp.dirs)
       \/ /\ imp' = [imp EXCEPT !.next = @ + 1, !.patched = TRUE]
          /\ UNCHANGED <<pc, error>>
    /\ UNCHANGED ImportIdle

\* __perform_patch, after the loop: the package's YAML on the destination
\* branch of the patch repository
FindPackageYaml ==
    /\ pc = "apply"
    /\ imp.next > Len(imp.patch_config_list)
    /\ IF consult_package(imp.branch_ref, imp.branch_yaml_exists)
       THEN \/ /\ Abort("GitCheckoutError", "GitCheckoutError", imp.dirs)
               /\ UNCHANGED executed
            \/ /\ ("refs/heads/" \o DestBranch) \in remote.refs
               /\ executed' = Append(executed, <<"find", PackageYml>>)
               /\ imp' = [imp EXCEPT !.checked_out = DestBranch]
               /\ pc' = IF find_single_yaml(DestBranch, PackageYml).some
                        THEN "run_package" ELSE "get_nevra"
               /\ error' = error
       ELSE /\ pc' = "get_nevra"
            /\ UNCHANGED <<executed, imp, error>>
    /\ UNCHANGED ImportIdle

RunPackageConfig ==
    /\ pc = "run_package"
    /\ executed' = Append(executed, <<"run", PackageYml, DestDir>>)
    /\ \/ \E kind \in ConfigRaises : Abort(kind, kind, imp.dirs)
       \/ /\ imp' = [imp EXCEPT !.patched = TRUE]
          /\ pc' = "get_nevra"
          /\ error' = error
    /\ UNCHANGED ImportIdle

\* __get_nevra: rpmutil.spec_parse of the spec file
GetNevra ==
    /\ pc = "get_nevra"
    /\ \/ Abort("RpmParseError", "RpmParseError", imp.dirs)
       \/ /\ pc' = "commit"
          /\ UNCHANGED <<imp, error>>
    /\ UNCHANGED <<executed, ImportIdle>>

\* __commit_and_tag: the prefix of the tag
commit_tag(patched) == IF patched THEN "patched" ELSE "imports"

\* __commit_and_tag and __push_changes; nothing is committed or tagged when
\* the copy changed nothing
CommitAndPush ==
    /\ pc = "commit"
    /\ \/ \E kind \in {"GitCommitError", "GitPushError"} : Abort(kind, kind, imp.dirs)
       \/ \E verify \in BOOLEAN :      \* repo.is_dirty()
             /\ imp' = [imp EXCEPT !.tag = IF verify THEN commit_tag(imp.patched) ELSE ""]
             /\ pc' = "else"
             /\ error' = error
    /\ UNCHANGED <<executed, ImportIdle>>

\* the except clauses (SystemExit passes them) and the else clause
Except ==
    /\ pc \in {"except", "else"}
    /\ imp' = IF pc = "except" /\ imp.raised # "SystemExit"
              THEN [imp EXCEPT !.fault = except_fault(imp.raised), !.raised = "none"]
              ELSE imp
    /\ pc' = "finally"
    /\ UNCHANGED <<executed, error, ImportIdle>>

\* importer/operation.py perform_cleanup: rmtree of each directory in turn,
\* FileNotFound for the first that cannot be removed
RECURSIVE perform_cleanup(_, _)
perform_cleanup(list_of_dirs, dirs) ==
    IF list_of_dirs = <<>> THEN [raised |-> "none", dirs |-> dirs]
    ELSE IF Head(list_of_dirs) \notin dirs
         THEN [raised |-> "FileNotFound", dirs |-> dirs]
         ELSE perform_cleanup(Tail(list_of_dirs), dirs \ {Head(list_of_dirs)})

\* the finally clause, then `if fault > 0: sys.exit(fault)`.  An exception
\* raised in the finally clause replaces the one in flight; one that leaves
\* srpmproc_import uncaught ends the interpreter with status 1.
Finally ==
    /\ pc = "finally"
    /\ LET c == perform_cleanup(<<SourceDir, DestDir, PatchDir>>, imp.dirs)
       IN  imp' = [imp EXCEPT
               !.dirs = c.dirs,
               !.raised = IF c.raised # "none" THEN c.raised ELSE @,
               !.exit_code = IF c.raised # "none" THEN 1
                             ELSE IF imp.raised = "SystemExit" THEN 2
                             ELSE imp.fault]
    /\ pc' = "exited"
    /\ UNCHANGED <<executed, error, ImportIdle>>

Refs == {"refs/heads/main", "refs/heads/" \o DestBranch, "refs/main/" \o DestBranch}

InitImport ==
    /\ loaded_config = <<>>
    /\ pc = "clone_source"
    /\ cursor = 0
    /\ queue = <<>>
    /\ plan = <<>>
    /\ executed = <<>>
    /\ disk = <<>>
    /\ disk0 = <<>>
    /\ error = "none"
    /\ script = NoScript
    /\ NullDP
    /\ NullANS
    /\ remote \in [refs : SUBSET Refs,
                   main_files : SUBSET {MainYml, BranchYml, PackageYml},
                   branch_files : SUBSET {PackageYml}]
    \* files are on branches that exist
    /\ remote.main_files # {} => "refs/heads/main" \in remote.refs
    /\ remote.branch_files # {} => ("refs/heads/" \o DestBranch) \in remote.refs
    \* directories of an earlier run may be left (empty, a clone into them works)
    /\ imp \in [patch : {FALSE}, main_ref : {FALSE}, branch_ref : {FALSE},
                checked_out : {""}, patch_config_list : {<<>>}, next : {1},
                branch_yaml_exists : {FALSE}, patched : {FALSE},
                fault : {0}, raised : {"none"}, exit_code : {-1},
                no_patch_repo : {FALSE}, tag : {""},
                dirs : SUBSET {SourceDir, DestDir, PatchDir}]
    /\ fs = [sources |-> <<>>]

NextImport ==
    \/ CloneSource
    \/ CloneDest
    \/ ClonePatchRepo
    \/ FindYamls
    \/ RunConfig
    \/ FindPackageYaml
    \/ RunPackageConfig
    \/ GetNevra
    \/ CommitAndPush
    \/ Except
    \/ Finally

SpecImport == InitImport /\ [][NextImport]_vars

\* the kinds of error that carry a fault code, as C14 lists them
FaultCodeKinds == {"GitInitError", "PatchConfigTypeError", "PatchConfigValueError",
                   "TooManyFilesError", "NotAppliedError", "FileNotFound",
                   "RpmParseError", "GitApplyError"}

\* C14 (as stated): when srpmproc_import is aborted by an error kind that
\* carries a fault code, the process exits with that kind's fault code.
\* Violated: a GitInitError from lsremote ends in sys.exit(2), and GitInitError
\* from clone, RpmParseError and GitApplyError fall to `except Exception`,
\* fault 2.
C14_Claimed_ExitIsFaultCode ==
    (pc = "exited" /\ error \in FaultCodeKinds) => imp.exit_code = fault_code(error)

\* C25 as claimed: srpmproc_import runs the cleanup on every path to its exit,
\* and a directory that is already gone raises nothing: the other directories
\* are still removed and the exit status is the one the import itself set.
\* Violated: perform_cleanup raises FileNotFound at the first directory that
\* rmtree cannot remove, the directories after it stay, and the exception
\* leaves srpmproc_import in place of the exit status.
C25_Claimed_CleanupBestEffort ==
    pc = "exited" =>
       /\ imp.dirs = {}
       /\ imp.raised \in {"none", "SystemExit"}
       /\ imp.exit_code = IF imp.raised = "SystemExit" THEN 2 ELSE imp.fault

\* C26 as claimed: when the main branch of the patch repository has no
\* <dest_branch>.yml, the repository has a branch named after the destination
\* branch and <package>.yml is on that branch, an import that gets past the
\* patching has run <package>.yml against the destination clone.
\* Violated: the branch is looked for under refs/main/<dest_branch>, a ref
\* that a branch does not have, so the package's file is never looked up.
C26_Claimed_PackageYmlFromBranch ==
    (/\ pc \in {"get_nevra", "commit", "else"}
     /\ BranchYml \notin remote.main_files
     /\ ("refs/heads/" \o DestBranch) \in remote.refs
     /\ PackageYml \in remote.branch_files) =>
        \E k \in 1..Len(executed) : executed[k] = <<"run", PackageYml, DestDir>>

\* C30 as claimed: when there is no patch repository (lsremote of it raises
\* GitInitError) and nothing else goes wrong, srpmproc_import ends without an
\* error status, no Config was run, and what was committed is tagged imports/.
\* Violated: __clone_patch_repo returns a bare None for a missing repository,
\* the caller unpacks three values from it, and the TypeError becomes fault 2.
C30_Claimed_NoPatchRepoCompletes ==
    (pc = "exited" /\ imp.no_patch_repo /\ error = "GitInitError") =>
       /\ imp.exit_code = 0
       /\ \A k \in 1..Len(executed) : executed[k][1] # "run"
       /\ imp.tag = "imports"

\* the configs run so far, in order
RECURSIVE RunsOf(_)
RunsOf(log) ==
    IF log = <<>> THEN <<>>
    ELSE IF Head(log)[1] = "run" THEN <<Head(log)[2]>> \o RunsOf(Tail(log))
         ELSE RunsOf(Tail(log))

IsPrefix(p, q) == Len(p) <= Len(q) /\ SubSeq(q, 1, Len(p)) = p

\* what is found on the main branch of the patch repository, main.yml first
MainConfigs ==
    (IF MainYml \in remote.main_files THEN <<MainYml>> ELSE <<>>)
    \o (IF BranchYml \in remote.main_files THEN <<BranchYml>> ELSE <<>>)

PatchingDone == pc \in {"run_package", "get_nevra", "commit", "else"}

\* C15: the configs found on the main branch of the patch repository are run
\* one Config each against the destination clone, main.yml before
\* <dest_branch>.yml; and when <dest_branch>.yml exists there, <package>.yml
\* is neither looked up nor run.
C15_MainThenBranchNeverPackage ==
    /\ \A k \in 1..Len(executed) :
          executed[k][1] = "run" => executed[k][3] = DestDir
    /\ BranchYml \in remote.main_files =>
          /\ IsPrefix(RunsOf(executed), MainConfigs)
          /\ \A k \in 1..Len(executed) : executed[k][2] # PackageYml
    /\ BranchYml \notin remote.main_files =>
          \/ IsPrefix(RunsOf(executed), MainConfigs)
          \/ RunsOf(executed) = Append(MainConfigs, PackageYml)
    /\ PatchingDone => IsPrefix(MainConfigs, RunsOf(executed))

\* both files are on main, the package's file is on the destination branch and
\* the import completed: main.yml and r9.yml were run, pkg.yml not looked for
C15_Witness ==
    /\ pc = "exited" /\ imp.exit_code = 0
    /\ ("refs/main/" \o DestBranch) \in remote.refs
    /\ PackageYml \in remote.branch_files
    /\ executed = <<<<"find", MainYml>>, <<"find", BranchYml>>,
                    <<"run", MainYml, DestDir>>, <<"run", BranchYml, DestDir>>>>

(***************************************************************************)
(* srpmproc/editor.py: AddFile, ReplaceFile and DeleteFile (specification  *)
(* SpecFileActions).  fs.files maps the names under the config's files/ to *)
(* "absent", "dir" or "file"; fs.sources maps the names under the          *)
(* package's SOURCES/ to their content ("absent" if there is none);        *)
(* fs.tree is the set of files at the top of the package; fs.metadata the  *)
(* lines of .<package>.metadata, fs.metadata_file whether that file is;    *)
(* fs.before is fs as the last action found it, fs.n the actions run.      *)
(* call is the action that ran last, error what it raised.                 *)
(***************************************************************************)
MaxFileActions == 3
MaxMeta        == 2

Absent        == "absent"
PayloadOf(k)  == <<"files", k>>          \* the content of files/<k>
Orig          == <<"srpm">>              \* the content of a file the package came with

\* str.strip() on the source overrides used below
strip(str) == IF str = " " THEN "" ELSE str

\* fileutil.file_is_relative(source, files_dir): refuses a source outside files/
file_is_relative(source_filename) == source_filename # "../x"

\* AddFile.__copy_file / ReplaceFile.__copy_file up to the test of the
\* target: the error raised, "none" if none
check_source(f, source_filename) ==
    IF ~file_is_relative(source_filename) THEN "FileError"
    ELSE IF source_filename \notin DOMAIN f.files \/ f.files[source_filename] = Absent
         THEN "NotAppliedError"
    ELSE IF f.files[source_filename] # "file" THEN "NotAppliedError"
    ELSE "none"

source_name(file_to_copy, source_override) ==
    IF strip(source_override) # "" THEN strip(source_override) ELSE file_to_copy

\* whether the test of the target lets the copy go on: AddFile raises when
\* the target exists, ReplaceFile when it does not
target_ok_Ignored(kind, exists) == TRUE

target_ok(kind, exists) == IF kind = "add_file" THEN ~exists ELSE exists

\* __copy_file: <<error, files after>>
copy_file(kind, f, file_to_copy, source_override) ==
    LET source_filename == source_name(file_to_copy, source_override)
        src_err == check_source(f, source_filename)
    IN  IF src_err # "none" THEN <<src_err, f>>
        ELSE IF ~target_ok(kind, f.sources[file_to_copy] # Absent)
             THEN <<"NotAppliedError", f>>
        ELSE <<"none",
               [f EXCEPT !.sources[file_to_copy] = PayloadOf(source_filename)]>>

SourceNames     == {"n"}          \* the names under SOURCES/
PayloadNames    == {"n", "m"}     \* the names under files/
SourceOverrides == {"", " ", "m", "../x"}

Step(c, err, f) ==
    /\ call' = c
    /\ error' = err
    /\ fs' = [f EXCEPT !.before = [fs EXCEPT !.before = <<>>], !.n = fs.n + 1]

FilesIdle == <<loaded_config, cursor, queue, plan, executed, disk, disk0, lidx, file, i,
               counter, changes, subs, ansVars, remote, imp, pc, script>>

\* AddFile.execute.  What precedes the copy (finding and reading the spec
\* file, add_new_source, the *.patches file) either raises or leaves the
\* files modelled here alone; with upload and type "source" the file goes to
\* the lookaside and nothing is copied.
AddFile_execute ==
    /\ error = "none" /\ fs.n < MaxFileActions
    /\ \E name \in SourceNames, source_override \in SourceOverrides,
          filetype \in {"patch", "source"}, upload \in BOOLEAN,
          pre \in {"none", "FileNotFound", "ValueError"} :
          LET c == [kind |-> "add_file", name |-> name,
                    source |-> source_name(name, source_override),
                    copied |-> pre = "none" /\ ~(upload /\ filetype = "source")]
              r == copy_file("add_file", fs, name, source_override)
          IN  IF pre # "none" THEN Step(c, pre, fs)
              ELSE IF upload /\ filetype = "source" THEN Step(c, "none", fs)
              ELSE Step(c, r[1], r[2])
    /\ UNCHANGED FilesIdle

\* ReplaceFile.execute ('upload' is no allowed key: always the copy)
ReplaceFile_execute ==
    /\ error = "none" /\ fs.n < MaxFileActions
    /\ \E filename \in SourceNames, source_override \in SourceOverrides :
          LET c == [kind |-> "replace_file", name |-> filename,
                    source |-> source_name(filename, source_override), copied |-> TRUE]
              r == copy_file("replace_file", fs, filename, source_override)
          IN  Step(c, r[1], r[2])
    /\ UNCHANGED FilesIdle

\* a line of .<package>.metadata: hex tells whether it starts with hex
\* digits and white space, name is what follows
MetaLine(hex, name) == [hex |-> hex, name |-> name]

\* re.match(rf'[0-9a-f]+\s+{filename}', line): anchored at the start of the
\* line only, so the file name need only be a prefix of what follows
MetaMatch(filename, line) == line.hex /\ IsPrefix(filename, line.name)

\* DeleteFile.__delete_from_metadata: <<error, metadata after>>.  The raise
\* stands in the loop body: only the first line is ever tested.
delete_from_metadata(filename, metadata) ==
    IF metadata = <<>> THEN <<"none", metadata>>
    ELSE IF MetaMatch(filename, metadata[1]) THEN <<"none", Tail(metadata)>>
    ELSE <<"NotAppliedError", metadata>>

TreeNames == {<<"n">>, <<"n", "x">>}

\* DeleteFile.execute.  The except clause is entered only when the file
\* vanishes between filename.exists() and filename.unlink().
DeleteFile_execute ==
    /\ error = "none" /\ fs.n < MaxFileActions
    /\ \E filename \in TreeNames, vanishes \in BOOLEAN :
          LET c == [kind |-> "delete_file", name |-> filename, source |-> "",
                    copied |-> FALSE, vanishes |-> vanishes]
              gone == [fs EXCEPT !.tree = @ \ {filename}]
              d == delete_from_metadata(filename, fs.metadata)
          IN  IF ~fs.metadata_file THEN Step(c, "FileNotFound", fs)
              ELSE IF fs.metadata = <<>> THEN Step(c, "FileNotFound", fs)  \* read_file_to_list
              ELSE IF filename \notin fs.tree
                   THEN /\ ~vanishes
                        /\ Step(c, "none", fs)           \* metadata written back as read
              ELSE IF ~vanishes THEN Step(c, "none", gone)
              ELSE IF d[1] # "none" THEN Step(c, d[1], gone)
              ELSE Step(c, "none", [gone EXCEPT !.metadata = d[2]])
    /\ UNCHANGED FilesIdle

MetaLines == {MetaLine(TRUE, <<"n">>), MetaLine(TRUE, <<"n", "x">>),
              MetaLine(FALSE, <<"n">>)}

InitFiles ==
    /\ loaded_config = <<>>
    /\ pc = "files"
    /\ cursor = 0
    /\ queue = <<>>
    /\ plan = <<>>
    /\ executed = <<>>
    /\ disk = <<>>
    /\ disk0 = <<>>
    /\ error = "none"
    /\ script = NoScript
    /\ call = [kind |-> "none"]
    /\ lidx = 0 /\ file = <<>> /\ i = 0 /\ counter = 0 /\ changes = FALSE /\ subs = <<>>
    /\ NullANS
    /\ remote = [refs |-> {}]
    /\ imp = [fault |-> 0]
    /\ fs \in [files    : [PayloadNames -> {Absent, "dir", "file"}],
               sources  : [SourceNames -> {Absent, Orig}],
               tree     : SUBSET TreeNames,
               metadata : SeqsUpTo(MetaLines, MaxMeta),
               metadata_file : BOOLEAN,
               before   : {<<>>},
               n        : {0}]
    /\ ~fs.metadata_file => fs.metadata = <<>>

NextFiles ==
    \/ AddFile_execute
    \/ ReplaceFile_execute
    \/ DeleteFile_execute

SpecFileActions == InitFiles /\ [][NextFiles]_vars

\* the last action was an AddFile or ReplaceFile that reached its copy
Copied(kind) == call.kind = kind /\ call.copied

\* the payload of the last copy is a file under files/
PayloadPresent ==
    /\ call.source \in PayloadNames
    /\ fs.before.files[call.source] = "file"

Existed == fs.before.sources[call.name] # Absent

\* C16: with the payload present, AddFile's copy succeeds (and writes the
\* payload to SOURCES/<name>) exactly when the target did not exist, and
\* ReplaceFile's exactly when it did; a refused copy raises NotAppliedError
\* and leaves SOURCES/ as it was; no copy succeeds otherwise.
C16_CopyPreconditions ==
    /\ (Copied("add_file") /\ error = "none") => ~Existed
    /\ (Copied("replace_file") /\ error = "none") => Existed
    /\ (Copied("add_file") /\ PayloadPresent) =>
          IF Existed
          THEN error = "NotAppliedError" /\ fs.sources = fs.before.sources
          ELSE error = "none" /\ fs.sources[call.name] = PayloadOf(call.source)
    /\ (Copied("replace_file") /\ PayloadPresent) =>
          IF Existed
          THEN error = "none" /\ fs.sources[call.name] = PayloadOf(call.source)
          ELSE error = "NotAppliedError" /\ fs.sources = fs.before.sources

\* a ReplaceFile after a successful AddFile: the file AddFile copied from
\* files/n is replaced by files/m
C16_Witness ==
    /\ Copied("replace_file") /\ error = "none" /\ fs.n = 2
    /\ fs.before.sources["n"] = PayloadOf("n")
    /\ fs.sources["n"] = PayloadOf("m")

\* the metadata lines other than the line of `filename`, in order
RECURSIVE WithoutLineOf(_, _)
WithoutLineOf(metadata, filename) ==
    IF metadata = <<>> THEN <<>>
    ELSE IF Head(metadata) = MetaLine(TRUE, filename)
         THEN WithoutLineOf(Tail(metadata), filename)
         ELSE <<Head(metadata)>> \o WithoutLineOf(Tail(metadata), filename)

\* C17 (as stated): DeleteFile deletes the file when it is in the package
\* tree; when it is absent its line is removed from the metadata file,
\* wherever it is, the other lines staying; with no metadata file it raises.
\* Violated: with the file absent filename.exists() is false, nothing raises
\* FileNotFoundError and the metadata is written back as it was read.
C17_Claimed_DeleteFile ==
    call.kind = "delete_file" =>
       /\ (fs.before.metadata_file /\ fs.before.metadata # <<>>
             /\ call.name \in fs.before.tree) => call.name \notin fs.tree
       /\ (fs.before.metadata_file /\ call.name \notin fs.before.tree
             /\ \E k \in 1..Len(fs.before.metadata) :
                   fs.before.metadata[k] = MetaLine(TRUE, call.name)) =>
             fs.metadata = WithoutLineOf(fs.before.metadata, call.name)
       /\ ~fs.before.metadata_file => error # "none"

(***************************************************************************)
(* C18: append_release followed by spec_changelog in one Config.           *)
(***************************************************************************)
\* the configs of the claim: append_release (enabled), then a spec_changelog
ReleaseThenChangelog ==
    /\ loaded_config.shape = "list"
    /\ Len(loaded_config.patch) = 2
    /\ loaded_config.patch[1] = Entry("append_release", TRUE, <<DataAppend>>)
    /\ loaded_config.patch[2].name = "spec_changelog"
    /\ loaded_config.patch[2].islist
    /\ Len(loaded_config.patch[2].list) = 1

\* a spec with a Release: line, no %autorelease, no %autochangelog and one
\* %changelog marker
PlainSpec(d) ==
    /\ \E k \in 1..Len(d) : spec_line_release(d[k])
    /\ ~spec_autorelease(d) /\ ~spec_autochangelog(d)
    /\ Cardinality({k \in 1..Len(d) : d[k] = ChangelogMarker}) = 1

MarkerAt(d) == CHOOSE k \in 1..Len(d) : d[k] = ChangelogMarker

Carries(text, part) ==
    \E k \in 0..(Len(text) - Len(part)) : SubSeq(text, k + 1, k + Len(part)) = part

\* C27 as claimed: when the script of an ApplyScript action exits non-zero,
\* the action raises NotAppliedError and the error's message carries the text
\* the script wrote to stderr.
\* Violated: the message is the literal "Script failed: {screrr.strip()}",
\* written without the f prefix, so it never holds the text.
C27_Claimed_ErrorCarriesStderr ==
    script.returncode # 0 =>
       /\ error = "NotAppliedError"
       /\ pc = "raised"
       /\ Carries(script.message, str_strip(script.stderr))

\* the step is the execute() of a SpecChangelog action
ChangelogStep ==
    /\ Len(executed') = Len(executed) + 1
    /\ queue[executed'[Len(executed')]].cls = "SpecChangelog"

\* the header and the wrapped bullets of the action stand right below a line
\* of `before` that is the %changelog marker
InsertedBelowMarker(before, after, data) ==
    \E c \in 1..Len(before) :
       /\ before[c] = ChangelogMarker
       /\ Len(after) >= c + 1 + Len(WrapAll(data["line"].v))
       /\ SubSeq(after, 1, c) = SubSeq(before, 1, c)
       /\ after[c + 1] = change_meta(data)
       /\ SubSeq(after, c + 2, c + 1 + Len(WrapAll(data["line"].v))) = WrapAll(data["line"].v)

\* C29 as claimed: the execute() of a spec_changelog action on a spec without
\* %autochangelog (that rpm can parse) either inserts its header and bullets
\* right below a %changelog marker, or, when no line is the marker, raises
\* NotAppliedError.
\* Violated: without a marker the loop inserts nothing, the file is written
\* back as it was and execute() returns without a raise.
C29_Claimed_ChangelogNeverSilent ==
    [][(ChangelogStep /\ ~spec_autochangelog(disk) /\ error' # "RpmParseError") =>
          IF \E c \in 1..Len(disk) : disk[c] = ChangelogMarker
          THEN /\ error' = "none"
               /\ InsertedBelowMarker(disk, disk', queue[executed'[Len(executed')]].data)
          ELSE error' = "NotAppliedError"]_vars

====
